---- MODULE Spec2Model ----
(***************************************************************************)
(* Model of the request resolution and execution core of devops_agent:     *)
(* RegexRouter.route, the Stage D language-model fallback of               *)
(* DockerAgent.forward, the disambiguation rewrite, the safety gate and    *)
(* the concurrent dispatch of process_query_async, call_tool_async and     *)
(* the /api/chat/confirm handler.                                          *)
(*                                                                         *)
(* Text.  A Python string is a sequence of atoms.  An atom is a run of     *)
(* characters that no operation of the program splits ("remote", "k8s",    *)
(* "list") or a separator ("_", "-", " ").  Concatenation and f-strings    *)
(* are \o, `x in s` is the infix test, startswith is the prefix test and   *)
(* lower() maps atom by atom.  A query is a sequence of words; a word is a *)
(* text without blanks.                                                    *)
(***************************************************************************)
EXTENDS Integers, Sequences, FiniteSets, TLC

\* ------------------------------------------------------------------ text

\* str.lower() on one atom: the model's alphabet has three cased atoms
LowerAtom(a) ==
    CASE a = "REMOTE" -> "remote"
      [] a = "Local"  -> "local"
      [] a = "Stop"   -> "stop"
      [] OTHER        -> a

\* str.lower()
Lower(s) == [i \in DOMAIN s |-> LowerAtom(s[i])]

\* `sub in s`
Contains(s, sub) ==
    \E i \in 0..(Len(s) - Len(sub)) :
        \A k \in 1..Len(sub) : s[i + k] = sub[k]

\* s.startswith(pre)
StartsWith(s, pre) ==
    /\ Len(pre) <= Len(s)
    /\ \A k \in 1..Len(pre) : s[k] = pre[k]

RECURSIVE JoinWith(_, _)
\* sep.join(parts)
JoinWith(parts, sep) ==
    IF Len(parts) = 0 THEN << >>
    ELSE IF Len(parts) = 1 THEN parts[1]
    ELSE parts[1] \o sep \o JoinWith(Tail(parts), sep)

\* the text of a query: its words separated by one blank
QueryText(q) == JoinWith(q, <<" ">>)

\* str.capitalize() of a status phase
Capitalize(w) ==
    CASE Lower(w) = <<"running">>   -> <<"Running">>
      [] Lower(w) = <<"pending">>   -> <<"Pending">>
      [] Lower(w) = <<"failed">>    -> <<"Failed">>
      [] Lower(w) = <<"succeeded">> -> <<"Succeeded">>
      [] Lower(w) = <<"unknown">>   -> <<"Unknown">>
      [] Lower(w) = <<"paused">>    -> <<"Paused">>
      [] OTHER                      -> Lower(w)

\* absent value (Python None) of a text
None == <<"None">>

\* ----------------------------------------------------------- tool names

remote_k8s_ == <<"remote", "_", "k8s", "_">>
local_k8s_  == <<"local", "_", "k8s", "_">>

pods        == <<"pod", "s">>
deployments == <<"deployment", "s">>
services    == <<"service", "s">>
namespaces  == <<"namespace", "s">>
nodes       == <<"node", "s">>

docker_stop_container  == <<"docker", "_", "stop", "_", "container">>
docker_run_container   == <<"docker", "_", "run", "_", "container">>
docker_list_containers == <<"docker", "_", "list", "_", "container", "s">>
chat                   == <<"chat">>

remote_k8s_list_pods   == remote_k8s_ \o <<"list", "_">> \o pods
local_k8s_list_pods    == local_k8s_ \o <<"list", "_">> \o pods
remote_k8s_list_nodes  == remote_k8s_ \o <<"list", "_">> \o nodes
local_k8s_list_nodes   == local_k8s_ \o <<"list", "_">> \o nodes
remote_k8s_list_deployments == remote_k8s_ \o <<"list", "_">> \o deployments
local_k8s_list_deployments  == local_k8s_ \o <<"list", "_">> \o deployments
remote_k8s_describe_node == remote_k8s_ \o <<"describe", "_", "node">>
local_k8s_describe_node  == local_k8s_ \o <<"describe", "_", "node">>
remote_k8s_describe_deployment == remote_k8s_ \o <<"describe", "_", "deployment">>
local_k8s_describe_deployment  == local_k8s_ \o <<"describe", "_", "deployment">>
remote_k8s_describe_pod == remote_k8s_ \o <<"describe", "_", "pod">>
local_k8s_describe_pod  == local_k8s_ \o <<"describe", "_", "pod">>

docker_status          == <<"docker", "_", "{status}">>
docker_get_container_logs    == <<"docker", "_", "get", "_", "container", "_", "log", "s">>
docker_get_container_details == <<"docker", "_", "get", "_", "container", "_", "detail", "s">>
docker_stop_all_containers   == <<"docker", "_", "stop", "_", "all", "_", "container", "s">>
remote_k8s_promote_resource  == remote_k8s_ \o <<"promote", "_", "resource">>
remote_k8s_find_resource_namespace == remote_k8s_ \o <<"find", "_", "resource", "_", "namespace">>
remote_k8s_trace_dependencies == remote_k8s_ \o <<"trace", "_", "dependencies">>
remote_k8s_list_events        == remote_k8s_ \o <<"list", "_", "events">>
remote_k8s_diff_resources     == remote_k8s_ \o <<"diff", "_", "resource", "s">>
remote_k8s_analyze_utilization == remote_k8s_ \o <<"analyze", "_", "utilization">>

\* --------------------------------------------- RegexRouter: the patterns
(* A pattern is a sequence of segments, a segment a sequence of            *)
(* alternatives in the order the regular expression tries them, and an     *)
(* alternative a sequence of word matchers.  An optional group is a        *)
(* segment whose last alternative is empty.  All patterns are compiled     *)
(* with re.I and applied with fullmatch to the stripped query.  Blanks     *)
(* (\s+) separate the words; `(for|of\s+)?` and `failing|error` in the     *)
(* source have no blank before the next word and so never match a word of  *)
(* their own, except `of`.                                                 *)

L(ws)     == [lit |-> ws, any |-> FALSE, cap |-> ""]
LC(ws, c) == [lit |-> ws, any |-> FALSE, cap |-> c]
W(c)      == [lit |-> {}, any |-> TRUE, cap |-> c]
Opt(alt)  == <<alt, << >> >>
Req(alt)  == <<alt>>

PHASES_LIST == {<<"running">>, <<"pending">>, <<"failed">>, <<"succeeded">>,
                <<"unknown">>, <<"paused">>}

InNs(c)          == Opt(<<L({<<"in">>}), W(c)>>)
InNamespaceNs(c) == << <<L({<<"in">>}), L({<<"namespace">>}), W(c)>>,
                       <<L({<<"in">>}), W(c)>>,
                       << >> >>
DetailWord == {<<"detail">>, <<"detail", "s">>}

PatBatchDescribe ==
    << Req(<<L({<<"describe">>})>>),
       << <<LC({<<"all">>}, "batch_all"), L({<<"the">>})>>,
          <<LC({<<"all">>}, "batch_all")>>,
          <<LC({<<"every">>}, "batch_all")>> >>,
       Opt(<<LC(PHASES_LIST, "batch_status")>>),
       Opt(<<LC({<<"remote">>}, "batch_remote")>>),
       Req(<<LC({<<"pod">>, pods, <<"deployment">>, deployments,
                 <<"service">>, services, <<"node">>, nodes}, "batch_resource")>>),
       << <<L({<<"with">>}), LC({<<"full">>}, "batch_detail"), L(DetailWord)>>,
          <<L({<<"with">>}), LC({<<"all">>}, "batch_detail"), L({<<"the">>}), L(DetailWord)>>,
          <<L({<<"with">>}), LC({<<"all">>}, "batch_detail"), L(DetailWord)>>,
          <<L({<<"with">>}), LC({<<"every">>}, "batch_detail"), L(DetailWord)>>,
          <<L({<<"with">>}), LC({<<"verbose">>, <<"detailed">>}, "batch_detail")>>,
          <<LC({<<"full">>}, "batch_detail"), L(DetailWord)>>,
          <<LC({<<"all">>}, "batch_detail"), L({<<"the">>}), L(DetailWord)>>,
          <<LC({<<"all">>}, "batch_detail"), L(DetailWord)>>,
          <<LC({<<"every">>}, "batch_detail"), L(DetailWord)>>,
          <<LC({<<"verbose">>, <<"detailed">>}, "batch_detail")>>,
          << >> >>,
       InNs("batch_ns") >>

PatListResources ==
    << Req(<<L({<<"list">>, <<"get">>, <<"show">>, <<"describe">>})>>),
       << <<L({<<"all">>}), L({<<"the">>})>>, <<L({<<"all">>})>>, << >> >>,
       Opt(<<LC({<<"remote">>}, "remote")>>),
       Opt(<<LC(PHASES_LIST, "status_phase")>>),
       Req(<<LC({pods, deployments, services, namespaces}, "resource_type_list")>>),
       Opt(<<L({<<"that">>}), L({<<"are">>}), LC(PHASES_LIST, "status_phase_alt")>>),
       InNs("namespace") >>

PatDescribeResource ==
    << Req(<<L({<<"get">>, <<"describe">>, <<"show">>})>>),
       Opt(<<LC({<<"remote">>}, "remote_detail")>>),
       Req(<<LC({<<"pod">>, <<"deployment">>, <<"service">>, <<"namespace">>},
                "res_type_detail")>>),
       Req(<<W("res_name_detail")>>),
       InNs("ns_detail") >>

PatGetLogs ==
    << Req(<<L({<<"get">>, <<"show">>, <<"view">>, <<"read">>})>>),
       Opt(<<L({<<"the">>})>>),
       Req(<<L({<<"log">>, <<"log", "s">>})>>),
       Opt(<<L({<<"of">>})>>),
       Opt(<<LC({<<"remote">>}, "remote_logs")>>),
       Req(<<W("pod_name_logs")>>),
       InNs("ns_logs") >>

PatListNodes ==
    << Req(<<L({<<"list">>, <<"get">>, <<"show">>})>>),
       Opt(<<LC({<<"remote">>}, "remote")>>),
       Req(<<L({nodes})>>) >>

PatDockerPs ==
    << << <<L({<<"docker">>}), L({<<"ps">>})>>,
          <<L({<<"ps">>})>>,
          <<L({<<"list">>}), L({<<"container", "s">>})>> >> >>

PatDockerStatus ==
    << Req(<<L({<<"docker">>})>>),
       Req(<<LC({<<"stop">>, <<"start">>, <<"restart">>}, "group1")>>),
       Req(<<W("container_name_or_id")>>) >>

PatDockerLogs ==
    << Req(<<L({<<"docker">>}), L({<<"log", "s">>}), W("container_name_or_id")>>) >>

PatDockerInspect ==
    << Req(<<L({<<"docker">>}), L({<<"inspect">>}), W("container_name_or_id")>>) >>

PatStopAll ==
    << Req(<<L({<<"stop">>, <<"terminate">>})>>),
       Opt(<<L({<<"all">>})>>),
       Req(<<L({<<"container", "s">>})>>) >>

PatPromote ==
    << Req(<<L({<<"promote">>})>>),
       Req(<<LC({<<"pod">>, <<"deployment">>, <<"service">>, <<"configmap">>,
                 <<"secret">>}, "resource_type")>>),
       Req(<<W("name")>>),
       Opt(<<L({<<"from">>}), L({<<"local">>})>>),
       Opt(<<L({<<"to">>}), L({<<"remote">>})>>) >>

PatTrace ==
    << << <<L({<<"trace">>, <<"diagnose">>, <<"troubleshoot">>})>>,
          <<L({<<"why">>}), L({<<"is">>})>>,
          <<L({<<"what's">>}), L({<<"wrong">>}), L({<<"with">>})>> >>,
       Opt(<<L({<<"all">>}), L({<<"the">>})>>),
       Opt(<<L({<<"pod">>, <<"deployment">>})>>),
       Req(<<W("pod_name_trace")>>),
       << <<L({<<"is">>}), L({<<"crashing">>})>>, <<L({<<"crashing">>})>>, << >> >>,
       InNamespaceNs("namespace_trace") >>

PatEvents ==
    << Req(<<L({<<"show">>, <<"list">>, <<"get">>})>>),
       Opt(<<L({<<"the">>})>>),
       Req(<<L({<<"events">>})>>),
       Opt(<<L({<<"for">>})>>),
       Req(<<W("pod_name_events")>>),
       InNamespaceNs("namespace_events") >>

PatFindNs ==
    << Req(<<L({<<"find">>})>>),
       Req(<<LC({<<"namespace">>, <<"ns">>, <<"location">>}, "find_ns")>>),
       Opt(<<L({<<"for">>, <<"of">>})>>),
       Req(<<W("resource_name_find")>>) >>

PatDiff ==
    << Req(<<L({<<"compare">>, <<"diff">>})>>),
       Req(<<LC({<<"pod">>, <<"deployment">>, <<"service">>}, "res_type_diff")>>),
       Req(<<W("res_name_diff")>>),
       InNamespaceNs("ns_diff") >>

PatUtilization ==
    << Opt(<<L({<<"analyze">>})>>),
       Req(<<L({<<"utilization">>})>>),
       InNamespaceNs("ns_util") >>

\* RegexRouter.PATTERNS: (pattern, base_name) in the order they are tried
PATTERNS ==
    << <<PatBatchDescribe,    <<"batch_describe">> >>,
       <<PatListResources,    <<"list_resources">> >>,
       <<PatDescribeResource, <<"describe_resource">> >>,
       <<PatGetLogs,          <<"get_logs">> >>,
       <<PatListNodes,        <<"list", "_", "node", "s">> >>,
       <<PatDockerPs,         docker_list_containers>>,
       <<PatDockerStatus,     docker_status>>,
       <<PatDockerLogs,       docker_get_container_logs>>,
       <<PatDockerInspect,    docker_get_container_details>>,
       <<PatStopAll,          docker_stop_all_containers>>,
       <<PatPromote,          <<"promote_resource">> >>,
       <<PatTrace,            <<"trace_dependencies">> >>,
       <<PatEvents,           <<"list_events">> >>,
       <<PatFindNs,           <<"find_ns">> >>,
       <<PatDiff,             <<"diff_resources">> >>,
       <<PatUtilization,      <<"analyze_utilization">> >> >>

\* one word against one matcher, case-insensitively
WordMatches(w, pa) == pa.any \/ Lower(w) \in pa.lit

\* the words q[qi .. qi+Len(alt)-1] against an alternative
AltMatches(alt, q, qi) ==
    /\ qi + Len(alt) - 1 <= Len(q)
    /\ \A k \in 1..Len(alt) : WordMatches(q[qi + k - 1], alt[k])

\* the named groups an alternative captures
AltCaps(alt, q, qi) ==
    [c \in {alt[k].cap : k \in {j \in 1..Len(alt) : alt[j].cap # ""}} |->
        q[qi + (CHOOSE k \in 1..Len(alt) : alt[k].cap = c) - 1]]

NoMatch == [ok |-> FALSE, caps |-> << >>]

RECURSIVE MatchFrom(_, _, _, _), TryAlt(_, _, _, _, _)
\* backtracking match of segments si.. against words qi..
MatchFrom(pat, si, q, qi) ==
    IF si > Len(pat)
    THEN IF qi = Len(q) + 1 THEN [ok |-> TRUE, caps |-> << >>] ELSE NoMatch
    ELSE TryAlt(pat, si, 1, q, qi)
TryAlt(pat, si, ai, q, qi) ==
    IF ai > Len(pat[si]) THEN NoMatch
    ELSE LET alt == pat[si][ai] IN
         IF AltMatches(alt, q, qi)
         THEN LET r == MatchFrom(pat, si + 1, q, qi + Len(alt)) IN
              IF r.ok THEN [ok |-> TRUE, caps |-> AltCaps(alt, q, qi) @@ r.caps]
              ELSE TryAlt(pat, si, ai + 1, q, qi)
         ELSE TryAlt(pat, si, ai + 1, q, qi)

\* pattern.fullmatch(q): ok and the groupdict of the groups that took part
FullMatch(pat, q) == MatchFrom(pat, 1, q, 1)

\* ------------------------------------------------- RegexRouter.route
\* dict with one key set
SetKey(d, k, v) == [x \in (DOMAIN d) \cup {k} |-> IF x = k THEN v ELSE d[x]]
EmptyDict == [x \in {} |-> None]

\* extracted.get(name) is truthy
Has(extracted, name) == name \in DOMAIN extracted

\* text.replace(old, new) for a single atom
ReplaceAtom(s, old, new) == [i \in DOMAIN s |-> IF s[i] = old THEN new ELSE s[i]]

\* rtype_raw.rstrip("s")
RStripS(s) == IF Len(s) > 0 /\ s[Len(s)] = "s" THEN SubSeq(s, 1, Len(s) - 1) ELSE s

\* rtype_raw if rtype_raw.endswith("s") else rtype_raw + "s"
Plural(s) == IF Len(s) > 0 /\ s[Len(s)] = "s" THEN s ELSE s \o <<"s">>

\* step 1 of route: the tool name of a non-batch match
RouteToolName(base_name, extracted) ==
    IF StartsWith(base_name, <<"docker">>)
    THEN IF Contains(base_name, <<"{status}">>)
         THEN <<"docker", "_">> \o Lower(extracted["group1"])
         ELSE base_name
    ELSE IF base_name = <<"list_resources">>
    THEN (IF Has(extracted, "remote") THEN remote_k8s_ ELSE local_k8s_)
            \o <<"list", "_">> \o Lower(extracted["resource_type_list"])
    ELSE IF base_name = <<"describe_resource">>
    THEN LET rtype  == Lower(extracted["res_type_detail"])
             prefix == IF Has(extracted, "remote_detail") THEN remote_k8s_ ELSE local_k8s_
             name   == prefix \o <<"describe", "_">> \o rtype
         IN IF rtype = <<"service">> THEN ReplaceAtom(name, "describe", "get") ELSE name
    ELSE IF base_name = <<"get_logs">>
    THEN (IF Has(extracted, "remote_logs") THEN remote_k8s_ ELSE local_k8s_)
            \o <<"get", "_", "pod", "_", "log", "s">>
    ELSE IF base_name = <<"promote_resource">> THEN remote_k8s_promote_resource
    ELSE IF base_name = <<"find_ns">> THEN remote_k8s_find_resource_namespace
    ELSE IF base_name = <<"trace_dependencies">> THEN remote_k8s_trace_dependencies
    ELSE IF base_name = <<"list_events">> THEN remote_k8s_list_events
    ELSE IF base_name = <<"diff_resources">> THEN remote_k8s_diff_resources
    ELSE IF base_name = <<"analyze_utilization">> THEN remote_k8s_analyze_utilization
    ELSE (IF Has(extracted, "remote") THEN remote_k8s_ ELSE local_k8s_) \o base_name

\* step 2 of route: the arguments of a non-batch match, assignment by assignment
RouteNamespace(tool_name, extracted) ==
    IF Has(extracted, "namespace") THEN extracted["namespace"]
    ELSE IF Has(extracted, "namespace_trace") THEN extracted["namespace_trace"]
    ELSE IF Has(extracted, "ns_diff") THEN extracted["ns_diff"]
    ELSE IF Has(extracted, "namespace_util") THEN extracted["namespace_util"]
    ELSE IF Has(extracted, "namespace_events") THEN extracted["namespace_events"]
    ELSE IF Has(extracted, "ns_detail") THEN extracted["ns_detail"]
    ELSE IF Has(extracted, "ns_logs") THEN extracted["ns_logs"]
    ELSE IF \E x \in {pods, deployments, services, <<"trace">>, <<"diff">>,
                      <<"analyze">>, <<"events">>} : Contains(tool_name, x)
    THEN <<"default">>
    ELSE None

\* extracted.get(name)
Get(extracted, name) == IF Has(extracted, name) THEN extracted[name] ELSE None

\* `if cond: args[k] = v`
SetIf(cond, d, k, v) == IF cond THEN SetKey(d, k, v) ELSE d

\* extracted.get("status_phase") or extracted.get("status_phase_alt")
PhaseRaw(extracted) ==
    IF Has(extracted, "status_phase") THEN extracted["status_phase"]
    ELSE Get(extracted, "status_phase_alt")

RouteArgs(tool_name, extracted) ==
    LET ns == RouteNamespace(tool_name, extracted)
        a0 == SetIf(ns # None, EmptyDict, "namespace", ns)
        a1 == SetIf(Has(extracted, "res_name_detail"), a0, "name",
                    Get(extracted, "res_name_detail"))
        a2 == SetIf(Has(extracted, "pod_name_logs"), a1, "pod_name",
                    Get(extracted, "pod_name_logs"))
        a3 == SetIf(Has(extracted, "res_type_diff"), a2, "resource_type",
                    Plural(Lower(Get(extracted, "res_type_diff"))))
        a4 == SetIf(Has(extracted, "resource_name_find"), a3, "name",
                    Get(extracted, "resource_name_find"))
        a5 == SetIf(Has(extracted, "pod_name_trace"), a4, "pod_name",
                    Get(extracted, "pod_name_trace"))
        a6 == SetIf(Has(extracted, "pod_name_events"), a5, "pod_name",
                    Get(extracted, "pod_name_events"))
        a7 == SetIf(Has(extracted, "res_name_diff"), a6, "resource_name",
                    Get(extracted, "res_name_diff"))
        a8 == SetIf(Contains(tool_name, <<"analyze", "_", "utilization">>), a7,
                    "risk_threshold", <<"90">>)
        a9 == SetIf(Has(extracted, "container_name_or_id"), a8, "container_name_or_id",
                    Get(extracted, "container_name_or_id"))
        a10 == SetIf(Has(extracted, "resource_type"), a9, "resource_type",
                     Get(extracted, "resource_type"))
        a11 == SetIf(Has(extracted, "name"), a10, "name", Get(extracted, "name"))
        phase == Lower(PhaseRaw(extracted))
        a12 == SetIf(PhaseRaw(extracted) # None /\ phase # <<"paused">>, a11,
                     "status_phase", Capitalize(phase))
        a13 == SetIf(\E x \in {<<"list">>, <<"ps">>} : Contains(tool_name, x), a12,
                     "limit", <<"50">>)
    IN a13

\* the single call of a batch_describe match
RouteBatch(extracted) ==
    LET rtype_raw == Lower(extracted["batch_resource"])
        rtype     == Plural(rtype_raw)
        prefix    == IF Has(extracted, "batch_remote") THEN remote_k8s_ ELSE local_k8s_
        b0 == SetKey(EmptyDict, "limit", <<"100">>)
        b1 == SetIf(Has(extracted, "batch_status"), b0, "status_phase",
                    Capitalize(Get(extracted, "batch_status")))
        b2 == SetIf(Has(extracted, "batch_ns") \/ rtype \in {pods, deployments, services},
                    b1, "namespace",
                    IF Has(extracted, "batch_ns") THEN extracted["batch_ns"]
                    ELSE <<"default">>)
    IN [name |-> prefix \o <<"list", "_">> \o rtype,
        arguments |-> b2,
        _batch_describe |-> TRUE,
        _batch_resource_type |-> RStripS(rtype_raw),
        _batch_full_detail |-> Has(extracted, "batch_detail"),
        _batch_prefix |-> prefix]

\* the calls built from the match of pattern number pi
RouteMatch(pi, extracted) ==
    IF PATTERNS[pi][2] = <<"batch_describe">>
    THEN <<RouteBatch(extracted)>>
    ELSE LET tool_name == RouteToolName(PATTERNS[pi][2], extracted)
         IN <<[name |-> tool_name, arguments |-> RouteArgs(tool_name, extracted)]>>

\* no calls (None, or the empty list)
NoCalls == << >>

\* RegexRouter.route(query): the first pattern that matches decides
route(query) ==
    LET hits == {pi \in 1..Len(PATTERNS) : FullMatch(PATTERNS[pi][1], query).ok} IN
    IF hits = {} THEN NoCalls
    ELSE LET pi == CHOOSE p \in hits : \A o \in hits : p <= o
         IN RouteMatch(pi, FullMatch(PATTERNS[pi][1], query).caps)

\* ------------------------------------------------------- tool schemas
remote_k8s_list_namespaces    == remote_k8s_ \o <<"list", "_">> \o namespaces
remote_k8s_find_pod_namespace == remote_k8s_ \o <<"find", "_", "pod", "_", "namespace">>
remote_k8s_get_resources_ips  == remote_k8s_ \o <<"get", "_", "resource", "s", "_", "ips">>
remote_k8s_describe_namespace == remote_k8s_ \o <<"describe", "_", "namespace">>
remote_k8s_list_services      == remote_k8s_ \o <<"list", "_">> \o services
remote_k8s_get_service        == remote_k8s_ \o <<"get", "_", "service">>
remote_k8s_describe_service   == remote_k8s_ \o <<"describe", "_", "service">>

\* get_tools_schema(): name -> parameters.required
DockerToolsSchema ==
    (docker_list_containers :> {}) @@ (docker_run_container :> {"image"}) @@
    (docker_stop_container :> {"container_id"}) @@ (chat :> {"message"})

\* get_local_k8s_tools_schema()
LocalK8sToolsSchema ==
    (local_k8s_list_pods :> {}) @@ (local_k8s_list_nodes :> {})

\* get_remote_k8s_tools_schema()
RemoteK8sToolsSchema ==
    (remote_k8s_list_pods :> {}) @@ (remote_k8s_list_nodes :> {}) @@
    (remote_k8s_list_namespaces :> {}) @@
    (remote_k8s_find_pod_namespace :> {"pod_names"}) @@
    (remote_k8s_get_resources_ips :> {"resource_type"}) @@
    (remote_k8s_list_deployments :> {}) @@
    (remote_k8s_describe_deployment :> {"deployment_name"}) @@
    (remote_k8s_describe_node :> {"node_name"}) @@
    (remote_k8s_describe_pod :> {"pod_name"}) @@
    (remote_k8s_describe_namespace :> {"namespace_name"}) @@
    (remote_k8s_list_services :> {}) @@
    (remote_k8s_get_service :> {"service_name"}) @@
    (remote_k8s_describe_service :> {"service_name"})

\* all_tools_schema with all three groups loaded
all_tools_schema == DockerToolsSchema @@ LocalK8sToolsSchema @@ RemoteK8sToolsSchema

\* ------------------------------------------------------------- safety
DANGEROUS_TOOLS == {docker_stop_container, docker_run_container}

is_tool_dangerous(tool_name) == tool_name \in DANGEROUS_TOOLS

\* the risk assessment the gate asks for
analyze_risk(tool_name, arguments) ==
    [is_dangerous |-> is_tool_dangerous(tool_name),
     capability   |-> tool_name,
     arguments    |-> arguments]

\* ---------------------------------------- Stage D: parsing and validation
(* The raw text of a model response is one of                              *)
(*   [kind |-> "list",  calls |-> <<call, ...>>]  a JSON list of call dicts *)
(*   [kind |-> "prose", text |-> text]           no JSON in it             *)
(*   [kind |-> "empty"]                          the empty string          *)

(*   [kind |-> "json",  data |-> document]        any other JSON document   *)
(* A JSON value is [type, text, entries]: a string with its text, null, or *)
(* a dict with its entries (key -> JSON value).  A document is the decoded  *)
(* top-level value: a list with its items, or one value (items has it).     *)
JStr(text)     == [type |-> "str",  text |-> text,  entries |-> EmptyDict]
JNull          == [type |-> "null", text |-> << >>, entries |-> EmptyDict]
JDict(entries) == [type |-> "dict", text |-> << >>, entries |-> entries]
JList(items)   == [top |-> "list",  items |-> items]
JValue(item)   == [top |-> item.type, items |-> <<item>>]

\* bool(value)
Truthy(value) ==
    CASE value.type = "str"  -> value.text # << >>
      [] value.type = "dict" -> DOMAIN value.entries # {}
      [] OTHER               -> FALSE

\* isinstance(item, dict) and "name" in item
IsNamedDict(item) == item.type = "dict" /\ "name" \in DOMAIN item.entries

\* item.get(key, default)
ItemGet(item, key, default) ==
    IF key \in DOMAIN item.entries THEN item.entries[key] ELSE default

\* _normalize_single(item)
_normalize_single(item) ==
    LET args == ItemGet(item, "arguments", ItemGet(item, "parameters", JDict(EmptyDict))) IN
    [name |-> item.entries["name"],
     arguments |-> IF Truthy(args) THEN args ELSE JDict(EmptyDict)]

RECURSIVE NormalizeEach(_)
\* the loop of _normalize_tool_list: a string is a call without arguments,
\* a dict with a name is normalised, anything else is left out
NormalizeEach(data) ==
    IF data = << >> THEN << >>
    ELSE (IF Head(data).type = "str"
          THEN <<[name |-> Head(data), arguments |-> JDict(EmptyDict)]>>
          ELSE IF IsNamedDict(Head(data)) THEN <<_normalize_single(Head(data))>>
          ELSE << >>) \o NormalizeEach(Tail(data))

\* _normalize_tool_list(data)
_normalize_tool_list(data) ==
    IF Len(data) = 2 /\ data[1].type = "str" /\ data[2].type = "dict"
    THEN <<[name |-> data[1], arguments |-> data[2]]>>
    ELSE IF Len(data) = 1 /\ data[1].type = "str"
    THEN <<[name |-> data[1], arguments |-> JDict(EmptyDict)]>>
    ELSE NormalizeEach(data)

\* what _validate_and_parse makes of the decoded document
ParsedData(data) ==
    IF data.top = "list" /\ Len(data.items) > 0
    THEN IF \E i \in DOMAIN data.items : IsNamedDict(data.items[i])
         THEN _normalize_tool_list(data.items) ELSE NoCalls
    ELSE IF data.top = "dict" /\ IsNamedDict(data.items[1])
    THEN <<_normalize_single(data.items[1])>>
    ELSE NoCalls

\* _validate_and_parse(output): the normalised calls, or NoCalls for None
_validate_and_parse(output) ==
    IF output.kind = "list" /\ Len(output.calls) > 0 THEN output.calls
    ELSE IF output.kind = "json" THEN ParsedData(output.data)
    ELSE NoCalls

RECURSIVE ValidToolCalls(_)
\* the validation loop of get_tool_calls: a dict with a name is kept, with
\* arguments {} when it has none, unless its arguments are no dict
ValidToolCalls(tool_calls_in) ==
    IF tool_calls_in = << >> THEN << >>
    ELSE LET call == Head(tool_calls_in)
             filled == IF "arguments" \in DOMAIN call.entries THEN call
                       ELSE JDict(SetKey(call.entries, "arguments", JDict(EmptyDict)))
         IN (IF IsNamedDict(call) /\ filled.entries["arguments"].type = "dict"
             THEN <<filled>> ELSE << >>) \o ValidToolCalls(Tail(tool_calls_in))

\* a faulty get_tool_calls that keeps a call whatever its arguments are
get_tool_calls_unchecked(response) ==
    IF response.kind # "json" THEN << >>
    ELSE IF response.data.top = "list"
    THEN SelectSeq(response.data.items, IsNamedDict)
    ELSE IF response.data.top = "dict"
    THEN SelectSeq(response.data.items, IsNamedDict)
    ELSE << >>

\* get_tool_calls(user_query, tools_schema, history) for the response
\* client.chat gave: a request that raised and a text no JSON is found in
\* give the empty list
get_tool_calls(response) ==
    IF response.kind # "json" THEN << >>
    ELSE IF response.data.top = "list" THEN ValidToolCalls(response.data.items)
    ELSE IF response.data.top = "dict" THEN ValidToolCalls(response.data.items)
    ELSE << >>

\* the atoms \w+ accepts after a tool-name prefix
IsWordAtom(a) == a \notin {" ", "-", ",", ".", "'"}

RECURSIVE WordRun(_, _)
\* the longest run of \w atoms of s that starts at position i
WordRun(s, i) ==
    IF i > Len(s) \/ ~IsWordAtom(s[i]) THEN << >>
    ELSE <<s[i]>> \o WordRun(s, i + 1)

\* a match of (remote_k8s_\w+|k8s_\w+|docker_\w+) starts at position i
ToolPatternAt(s, i) ==
    LET rest == SubSeq(s, i, Len(s)) IN
    \/ StartsWith(rest, remote_k8s_) /\ Len(WordRun(s, i + 4)) > 0
    \/ StartsWith(rest, <<"k8s", "_">>) /\ Len(WordRun(s, i + 2)) > 0
    \/ StartsWith(rest, <<"docker", "_">>) /\ Len(WordRun(s, i + 2)) > 0

\* re.findall(tool_pattern, cleaned)[0], or None
FirstToolName(s) ==
    LET at == {i \in 1..Len(s) : ToolPatternAt(s, i)} IN
    IF at = {} THEN None
    ELSE WordRun(s, CHOOSE i \in at : \A j \in at : i <= j)

\* parse_dspy_tool_calls(output) for the string agent.py passes in
parse_dspy_tool_calls(output) ==
    IF _validate_and_parse(output) # NoCalls THEN _validate_and_parse(output)
    ELSE IF output.kind = "prose" /\ FirstToolName(output.text) # None
    THEN <<[name |-> FirstToolName(output.text), arguments |-> EmptyDict]>>
    ELSE NoCalls

\* the check _validate_semantics makes of one call
CallError(call, tools_schema) ==
    IF call.name \notin DOMAIN tools_schema THEN "does not exist"
    ELSE IF \E req \in tools_schema[call.name] : req \notin DOMAIN call.arguments
    THEN "missing required argument"
    ELSE ""

\* _validate_semantics(tool_calls, tools_schema): (is_valid, error of the first bad call)
_validate_semantics(tool_calls, tools_schema) ==
    LET bad == {i \in 1..Len(tool_calls) : CallError(tool_calls[i], tools_schema) # ""} IN
    IF bad = {} THEN [ok |-> TRUE, error |-> ""]
    ELSE [ok |-> FALSE,
          error |-> CallError(tool_calls[CHOOSE i \in bad : \A j \in bad : i <= j],
                              tools_schema)]

\* a response passes both checks of DockerAgent.forward
ResponseValid(output, tools_schema) ==
    /\ _validate_and_parse(output) # NoCalls
    /\ _validate_semantics(_validate_and_parse(output), tools_schema).ok

\* last_error after a careful attempt that did not validate
CarefulError(output, tools_schema) ==
    IF _validate_and_parse(output) = NoCalls
    THEN "Output was not a valid JSON list of tool calls"
    ELSE _validate_semantics(_validate_and_parse(output), tools_schema).error

\* DockerAgent.max_retries
max_retries == 2

\* -------------------------------------------------------- disambiguation
AMBIGUOUS_TOOL_PAIRS ==
    (local_k8s_list_pods :> remote_k8s_list_pods) @@
    (local_k8s_list_nodes :> remote_k8s_list_nodes) @@
    (local_k8s_list_deployments :> remote_k8s_list_deployments) @@
    (local_k8s_describe_node :> remote_k8s_describe_node) @@
    (local_k8s_describe_deployment :> remote_k8s_describe_deployment) @@
    (local_k8s_describe_pod :> remote_k8s_describe_pod) @@
    (remote_k8s_list_pods :> local_k8s_list_pods) @@
    (remote_k8s_list_nodes :> local_k8s_list_nodes) @@
    (remote_k8s_list_deployments :> local_k8s_list_deployments) @@
    (remote_k8s_describe_node :> local_k8s_describe_node) @@
    (remote_k8s_describe_deployment :> local_k8s_describe_deployment) @@
    (remote_k8s_describe_pod :> local_k8s_describe_pod)

\* a faulty test that forgets query.lower()
is_explicit_remote_cased(query) == Contains(QueryText(query), <<"remote">>)

is_explicit_remote(query) == Contains(Lower(QueryText(query)), <<"remote">>)
is_explicit_local(query)  == Contains(Lower(QueryText(query)), <<"local">>)

\* the sticky-mode scan of the history
session_has_remote(history) ==
    \E i \in 1..Len(history) :
        \/ history[i].role = "assistant" /\ Contains(history[i].content, remote_k8s_)
        \/ history[i].role = "user" /\ Contains(Lower(history[i].content), <<"remote">>)

\* a faulty scan that takes local evidence from user messages only
session_has_local_users(history) ==
    \E i \in 1..Len(history) :
        history[i].role = "user" /\ Contains(Lower(history[i].content), <<"local">>)

session_has_local(history) ==
    \E i \in 1..Len(history) :
        \/ /\ history[i].role = "assistant"
           /\ Contains(history[i].content, local_k8s_)
           /\ ~Contains(history[i].content, remote_k8s_)
        \/ history[i].role = "user" /\ Contains(Lower(history[i].content), <<"local">>)

strong_remote_context(history) == session_has_remote(history) /\ ~session_has_local(history)
strong_local_context(history)  == session_has_local(history) /\ ~session_has_remote(history)

\* a faulty loop body whose last case defaults to the local variant
DisambiguateNameDefaultLocal(tool_name, query, history) ==
    IF tool_name \notin DOMAIN AMBIGUOUS_TOOL_PAIRS THEN tool_name
    ELSE LET alternative_tool == AMBIGUOUS_TOOL_PAIRS[tool_name]
             remote_tool == IF Contains(tool_name, <<"remote", "_">>)
                            THEN tool_name ELSE alternative_tool
             local_tool  == IF Contains(tool_name, <<"remote", "_">>)
                            THEN alternative_tool ELSE tool_name
         IN IF is_explicit_remote(query) THEN remote_tool
            ELSE IF is_explicit_local(query) THEN local_tool
            ELSE IF strong_remote_context(history) THEN remote_tool
            ELSE local_tool

\* a faulty loop body whose last case takes the other tool of the pair
DisambiguateNameSwaps(tool_name, query, history) ==
    IF tool_name \notin DOMAIN AMBIGUOUS_TOOL_PAIRS THEN tool_name
    ELSE LET alternative_tool == AMBIGUOUS_TOOL_PAIRS[tool_name]
             remote_tool == IF Contains(tool_name, <<"remote", "_">>)
                            THEN tool_name ELSE alternative_tool
             local_tool  == IF Contains(tool_name, <<"remote", "_">>)
                            THEN alternative_tool ELSE tool_name
         IN IF is_explicit_remote(query) THEN remote_tool
            ELSE IF is_explicit_local(query) THEN local_tool
            ELSE IF strong_remote_context(history) THEN remote_tool
            ELSE IF strong_local_context(history) THEN local_tool
            ELSE alternative_tool

\* the name the loop body leaves in tool_calls[i]["name"]
DisambiguateName(tool_name, query, history) ==
    IF tool_name \notin DOMAIN AMBIGUOUS_TOOL_PAIRS THEN tool_name
    ELSE LET alternative_tool == AMBIGUOUS_TOOL_PAIRS[tool_name]
             remote_tool == IF Contains(tool_name, <<"remote", "_">>)
                            THEN tool_name ELSE alternative_tool
             local_tool  == IF Contains(tool_name, <<"remote", "_">>)
                            THEN alternative_tool ELSE tool_name
         IN IF is_explicit_remote(query) THEN remote_tool
            ELSE IF is_explicit_local(query) THEN local_tool
            ELSE IF strong_remote_context(history) THEN remote_tool
            ELSE IF strong_local_context(history) THEN local_tool
            ELSE remote_tool

\* a faulty loop that rebuilds each call from its name and arguments
DisambiguationRebuilds(tool_calls, query, history) ==
    [i \in DOMAIN tool_calls |->
        [name |-> DisambiguateName(tool_calls[i].name, query, history),
         arguments |-> tool_calls[i].arguments]]

\* the disambiguation loop over tool_calls: only the name is assigned
Disambiguation(tool_calls, query, history) ==
    [i \in DOMAIN tool_calls |->
        [k \in DOMAIN tool_calls[i] |->
            IF k = "name" THEN DisambiguateName(tool_calls[i].name, query, history)
            ELSE tool_calls[i][k]]]

\* ------------------------------------------------------ call_tool_async
MCP_URL            == "http://127.0.0.1:8080"
K8S_MCP_URL        == "http://127.0.0.1:8081"
REMOTE_K8S_MCP_URL == "http://127.0.0.1:8082"

\* the endpoint call_tool_async posts to
ToolUrl(tool_name) ==
    IF StartsWith(tool_name, local_k8s_) \/ StartsWith(tool_name, <<"k8s", "_">>)
    THEN K8S_MCP_URL
    ELSE IF StartsWith(tool_name, remote_k8s_) THEN REMOTE_K8S_MCP_URL
    ELSE MCP_URL

(* What one HTTP exchange can do:                                          *)
(*   connect_error  httpx.ConnectError                                     *)
(*   timeout        httpx.TimeoutException                                 *)
(*   http_status    raise_for_status() raises on 4xx/5xx                   *)
(*   bad_json       response.json() raises                                 *)
(*   rpc_error      the JSON-RPC response has an "error" member            *)
(*   result_ok      "result" is the tool's payload with success true       *)
Outcomes == {"connect_error", "timeout", "http_status", "bad_json",
             "rpc_error", "result_ok"}
FailureOutcomes == Outcomes \ {"result_ok"}

\* a faulty call_tool_async without the last `except Exception`: what
\* raise_for_status() and response.json() raise leaves the coroutine
call_tool_async_unguarded(tool_name, arguments, outcome) ==
    CASE outcome = "connect_error" ->
            [success |-> FALSE, raised |-> FALSE,
             error |-> <<"Cannot connect to MCP server at ", ToolUrl(tool_name)>>]
      [] outcome = "timeout" ->
            [success |-> FALSE, raised |-> FALSE, error |-> <<"Request timed out">>]
      [] outcome \in {"http_status", "bad_json"} ->
            [success |-> FALSE, raised |-> TRUE, error |-> <<"Async error: ", outcome>>]
      [] outcome = "rpc_error" ->
            [success |-> FALSE, raised |-> FALSE, error |-> <<"rpc error">>]
      [] OTHER ->
            [success |-> TRUE, raised |-> FALSE, error |-> << >>]

\* the value call_tool_async returns for an exchange; raised is never TRUE
call_tool_async(tool_name, arguments, outcome) ==
    CASE outcome = "connect_error" ->
            [success |-> FALSE, raised |-> FALSE,
             error |-> <<"Cannot connect to MCP server at ", ToolUrl(tool_name)>>]
      [] outcome = "timeout" ->
            [success |-> FALSE, raised |-> FALSE, error |-> <<"Request timed out">>]
      [] outcome \in {"http_status", "bad_json"} ->
            [success |-> FALSE, raised |-> FALSE, error |-> <<"Async error: ", outcome>>]
      [] outcome = "rpc_error" ->
            [success |-> FALSE, raised |-> FALSE, error |-> <<"rpc error">>]
      [] OTHER ->
            [success |-> TRUE, raised |-> FALSE, error |-> << >>]

\* --------------------------------- prefetching and context injection
\* a request as the backends see it; origin says what posted it
Request(origin, index, tool_name, arguments) ==
    [origin |-> origin, index |-> index, name |-> tool_name, arguments |-> arguments,
     url |-> ToolUrl(tool_name), outcome |-> "pending"]

\* the atoms [\w-] accepts
IsNameAtom(a) == IsWordAtom(a) \/ a = "-"

RECURSIVE NameRun(_, _)
\* the longest run of [\w-] atoms of s that starts at position i
NameRun(s, i) ==
    IF i > Len(s) \/ ~IsNameAtom(s[i]) THEN << >>
    ELSE <<s[i]>> \o NameRun(s, i + 1)

\* re.search(r'(?:pod|container|deployment|node)\s+([\w-]+)', query, re.I):
\* the word whose end the leftmost match takes, 0 for no match
PotentialResourceAt(q) ==
    LET at == {i \in 1..(Len(q) - 1) :
                  /\ LowerAtom(q[i][Len(q[i])]) \in {"pod", "container", "deployment", "node"}
                  /\ Len(NameRun(q[i + 1], 1)) > 0}
    IN IF at = {} THEN 0 ELSE CHOOSE i \in at : \A j \in at : i <= j

\* the speculative prefetch of the fallback path: the request of the task
\* asyncio.create_task starts, or none
SpeculativePrefetch(q) ==
    IF PotentialResourceAt(q) # 0 /\ Contains(Lower(QueryText(q)), <<"pod">>)
    THEN <<Request("speculative", 0,
                   IF Contains(Lower(QueryText(q)), <<"remote">>)
                   THEN remote_k8s_describe_pod ELSE local_k8s_describe_pod,
                   SetKey(EmptyDict, "name", NameRun(q[PotentialResourceAt(q) + 1], 1)))>>
    ELSE << >>

chat_keywords ==
    { << <<"hi">> >>, << <<"hello">> >>, << <<"hey">> >>, << <<"help">> >>,
      << <<"who">>, <<"are">>, <<"you">> >>, << <<"what">>, <<"is">>, <<"this">> >>,
      << <<"thanks">> >>, << <<"thank">>, <<"you">> >>, << <<"bye">> >>, << <<"test">> >> }

\* q_lower == w or q_lower.startswith(w + " ") for a chat keyword w
is_chat(q) ==
    \E kw \in chat_keywords :
        /\ Len(kw) <= Len(q)
        /\ \A j \in 1..Len(kw) : Lower(q[j]) = kw[j]

\* AgenticSettings.CONTEXT_TIMEOUT, seconds
CONTEXT_TIMEOUT == 5

\* how a live-state fetch can end: with a listing, with success false, or
\* with a listing whose items lack the "name" the parsing reads
ContextOutcomes == {"result_ok", "connect_error", "malformed"}

\* seconds the fetches take
ElapsedTimes == {1, CONTEXT_TIMEOUT + 1}

\* asyncio.wait_for(..., timeout=settings.CONTEXT_TIMEOUT) gives up
TimedOut(elapsed) == elapsed >= CONTEXT_TIMEOUT

\* what the body of the context block raises: wait_for raises TimeoutError
\* and cancels the fetches, c["name"] raises KeyError
ContextError(fetches) ==
    IF \E f \in DOMAIN fetches : fetches[f].outcome = "cancelled" THEN "TimeoutError"
    ELSE IF \E f \in DOMAIN fetches : fetches[f].outcome = "malformed" THEN "KeyError"
    ELSE "none"

\* a faulty block with the `except asyncio.TimeoutError` clause alone
ContextCaughtTimeoutOnly(exc) == exc = "TimeoutError"

\* the except clauses of the context block: `except asyncio.TimeoutError`
\* and `except Exception`
ContextCaught(exc) == exc = "TimeoutError" \/ exc \in {"KeyError"}

\* the live-state fetches made for the prompt and how each ended;
\* remote_up is pulse.get_status("k8s_remote") not being "disconnected"
ContextFetches(q, remote_up, ctx, elapsed) ==
    LET has(w) == Contains(Lower(QueryText(q)), <<w>>)
        want_remote == (has("remote") \/ has("node")) /\ remote_up
        named_local == has("local") \/ has("pod") \/ has("deployment") \/ has("service")
        want_docker == has("docker") \/ has("container")
        want_local_k8s ==
            \/ named_local
            \/ /\ ~(want_remote \/ named_local \/ want_docker)
               /\ has("list") \/ has("get") \/ has("show")
        Fetch(tool_name, arguments) ==
            [Request("context", 0, tool_name, arguments)
                EXCEPT !.outcome = IF TimedOut(elapsed) THEN "cancelled" ELSE ctx]
    IN IF is_chat(q) THEN << >>
       ELSE (IF want_docker
             THEN <<Fetch(docker_list_containers, SetKey(EmptyDict, "all", <<"False">>))>>
             ELSE << >>)
            \o (IF want_local_k8s
                THEN <<Fetch(local_k8s_list_pods,
                             SetKey(EmptyDict, "namespace", <<"default">>))>>
                ELSE << >>)
            \o (IF want_remote
                THEN <<Fetch(remote_k8s_list_nodes, EmptyDict)>>
                ELSE << >>)

\* ------------------------------------------------------------- bounds
MaxHist     == 2     \* messages in the history of a turn Stage A resolves
MaxLMHist   == 1     \* messages in the history of a turn the model resolves
MaxCalls    == 2     \* calls in one model response
MaxConfirms == 1     \* posts to /api/chat/confirm in one behaviour
MaxItems    == 2     \* items in the result of one listing
MaxOps      == 3     \* operations on the episodic memory in one behaviour
MaxEntities == 1     \* resources in one update
MaxTime     == 302   \* seconds a behaviour of the episodic memory lasts

\* ------------------------------------------------------------- inputs
Wd(a) == <<a>>
web == <<"web">>

\* queries a Stage A pattern matches
RoutedQueries ==
    { <<Wd("list"), Wd("remote"), pods>>,
      <<Wd("list"), pods>>,
      <<Wd("list"), pods, Wd("in"), <<"remote", "-", "ns">> >>,
      <<Wd("list"), services, Wd("in"), <<"remote", "-", "ns">> >>,
      <<Wd("describe"), Wd("REMOTE"), Wd("pod"), web>>,
      <<Wd("describe"), Wd("pod"), web>>,
      <<Wd("describe"), Wd("remote"), Wd("pod"), <<"local", "-", "web">> >>,
      <<Wd("describe"), Wd("pod"), <<"local", "-", "web">> >>,
      <<Wd("get"), Wd("remote"), nodes>>,
      <<Wd("list"), nodes>>,
      <<Wd("show"), <<"log", "s">>, Wd("of"), web>>,
      <<Wd("docker"), Wd("ps")>>,
      <<Wd("docker"), Wd("Stop"), web>>,
      <<Wd("docker"), Wd("start"), web>>,
      <<Wd("docker"), Wd("restart"), web>>,
      <<Wd("docker"), Wd("inspect"), web>>,
      <<Wd("stop"), Wd("all"), <<"container", "s">> >>,
      <<Wd("promote"), Wd("pod"), web, Wd("to"), Wd("remote")>>,
      <<Wd("why"), Wd("is"), web, Wd("crashing")>>,
      <<Wd("compare"), Wd("pod"), web>>,
      <<Wd("show"), Wd("events"), Wd("for"), web>>,
      <<Wd("find"), Wd("ns"), Wd("for"), web>>,
      <<Wd("utilization")>>,
      <<Wd("describe"), Wd("all"), pods>> }

\* queries no pattern matches: without a group word (one names a pod, one
\* was answered before), with "remote", with "local"
UnroutedQueries ==
    { <<Wd("restart"), Wd("pod"), web>>,
      <<Wd("check"), Wd("the"), nodes>>,
      <<Wd("check"), Wd("the"), Wd("REMOTE"), pods>>,
      <<Wd("list"), Wd("Local"), nodes>> }

Queries == RoutedQueries \cup UnroutedQueries

\* json.dumps(tool_calls) as far as the history scan reads it: the names
Dump(calls) == JoinWith([i \in DOMAIN calls |-> calls[i].name], <<",">>)

Call(n, a) == [name |-> n, arguments |-> a]
cLocalPods   == Call(local_k8s_list_pods, SetKey(EmptyDict, "namespace", <<"default">>))
cRemoteNodes == Call(remote_k8s_list_nodes, EmptyDict)
cStop        == Call(docker_stop_container, SetKey(EmptyDict, "container_id", web))
cMissing     == Call(remote_k8s_describe_pod, SetKey(EmptyDict, "name", web))
cLocalServices == Call(local_k8s_ \o <<"list", "_">> \o services, EmptyDict)

\* messages a session can hold
Messages ==
    { [role |-> "user", content |->
          QueryText(<<Wd("not"), Wd("the"), Wd("remote"), Wd("cluster")>>)],
      [role |-> "user", content |-> QueryText(<<Wd("use"), Wd("Local"), Wd("cluster")>>)],
      [role |-> "assistant", content |-> Dump(<<cLocalServices>>)],
      [role |-> "assistant", content |-> Dump(<<cRemoteNodes>>)],
      [role |-> "assistant", content |-> Dump(<<cLocalPods, cRemoteNodes>>)] }

SeqsUpTo(S, n) == UNION {[1..k -> S] : k \in 0..n}

Histories == SeqsUpTo(Messages, MaxHist)

\* the messages of the shorter histories: a user who said "remote", a local
\* call, a remote call
RecentMessages ==
    {m \in Messages :
        \/ m.role = "user" /\ Contains(Lower(m.content), <<"remote">>)
        \/ m.role = "assistant" /\ m.content \in {Dump(<<cLocalServices>>), Dump(<<cRemoteNodes>>)}}

\* the bulk phrasing with a word that is no phase of PHASES_LIST
DescribeAllFailing == <<Wd("describe"), Wd("all"), Wd("failing"), pods>>

\* the (query, history) pairs a turn is started with
Turns ==
    (RoutedQueries \X Histories)
    \cup (UnroutedQueries \X SeqsUpTo(RecentMessages, MaxLMHist))
    \cup {<<DescribeAllFailing, << >> >>}

\* the calls a model response can carry
CallPool == {cLocalPods, cStop, cMissing}

\* what the language model can answer; "raise" is a call that raises
LMOutputs ==
    {[kind |-> "list", calls |-> c, text |-> << >>] :
        c \in SeqsUpTo(CallPool, MaxCalls) \ {<< >>}}
    \cup {[kind |-> "prose", calls |-> << >>, text |-> t] :
            t \in {QueryText(<<Wd("use"), local_k8s_list_pods>>),
                   QueryText(<<Wd("no"), Wd("idea")>>)}}
    \cup {[kind |-> "empty", calls |-> << >>, text |-> << >>],
          [kind |-> "raise", calls |-> << >>, text |-> << >>],
          [kind |-> "raise", calls |-> << >>, text |-> <<"timed", " ", "out">>]}

\* ---------------------------------------------- the documents parsed
nginx == <<"nginx">>
k8s_list_pods  == <<"k8s", "_", "list", "_", "pod", "s">>
k8s_list_nodes == <<"k8s", "_", "list", "_", "node", "s">>
k8s_describe_pod == <<"k8s", "_", "describe", "_", "pod">>

\* the elements of a JSON list, and the values that stand alone:
\*   {"name": "docker_run_container", "arguments": {"image": "nginx"}}
\*   {"name": "k8s_list_pods", "arguments": {"namespace": "default"}}
\*   {"name": "k8s_list_pods", "parameters": {"namespace": "default"}}
\*   {"name": "k8s_list_nodes"}
\*   {"name": "remote_k8s_list_pods", "arguments": {}}
\*   {"name": "local_k8s_list_pods", "arguments": {}}
\*   {"name": "docker_list_containers", "arguments": "all"}
\*   {"name": "docker_list_containers", "arguments": null}
\*   {"image": "nginx"}
\*   {"name": "web"}
\*   "docker_run_container",  "k8s_describe_pod",  null
JsonItems ==
    { JDict(("name" :> JStr(docker_run_container))
            @@ ("arguments" :> JDict("image" :> JStr(nginx)))),
      JDict(("name" :> JStr(k8s_list_pods))
            @@ ("arguments" :> JDict("namespace" :> JStr(<<"default">>)))),
      JDict(("name" :> JStr(k8s_list_pods))
            @@ ("parameters" :> JDict("namespace" :> JStr(<<"default">>)))),
      JDict("name" :> JStr(k8s_list_nodes)),
      JDict(("name" :> JStr(remote_k8s_list_pods)) @@ ("arguments" :> JDict(EmptyDict))),
      JDict(("name" :> JStr(local_k8s_list_pods)) @@ ("arguments" :> JDict(EmptyDict))),
      JDict(("name" :> JStr(docker_list_containers)) @@ ("arguments" :> JStr(<<"all">>))),
      JDict(("name" :> JStr(docker_list_containers)) @@ ("arguments" :> JNull)),
      JDict("image" :> JStr(nginx)),
      JDict("name" :> JStr(web)),
      JStr(docker_run_container),
      JStr(k8s_describe_pod),
      JNull }

\* the JSON documents a response can be
Documents ==
    {JList(items) : items \in SeqsUpTo(JsonItems, MaxCalls)}
    \cup {JValue(item) : item \in JsonItems}

NoData == JValue(JNull)

\* what the parsers are given: a JSON document, a text with no JSON in it,
\* the empty string, and for get_tool_calls a request that raised
Responses ==
    {[kind |-> "json", calls |-> << >>, text |-> << >>, data |-> d] : d \in Documents}
    \cup {[kind |-> k, calls |-> << >>, text |-> t, data |-> NoData] :
            k \in {"prose"}, t \in {QueryText(<<Wd("no"), Wd("idea")>>)}}
    \cup {[kind |-> k, calls |-> << >>, text |-> << >>, data |-> NoData] :
            k \in {"empty", "raise"}}

\* what process_query returns: the refusal when no call was understood,
\* else the separator line and the entries joined
SeqOutput(understood, entries) == [understood |-> understood, entries |-> entries]
NoSeqOutput == [understood |-> FALSE, entries |-> <<"none">>]

\* no lookup was made since the last registration
NoAnswer == [op |-> "none", name |-> "", tools |-> << >>]

\* the processes that run AgentLauncher.start_all; a supervisor's number is
\* its PID
MaxLaunchers == 2
Launchers == 1..MaxLaunchers

\* LOCK_FILE: absent, unreadable as JSON, or {"main_pid": pid, ...}
NoLockFile      == [state |-> "absent",  main_pid |-> 0]
CorruptLockFile == [state |-> "corrupt", main_pid |-> 0]
LockFile(pid)   == [state |-> "valid",   main_pid |-> pid]

\* no call of the repository was made
NoDbAnswer == [op |-> "none", session_id |-> "", ok |-> FALSE, messages |-> << >>]

\* no careful request was made
NoPrompt == [query |-> << >>, errors |-> << >>]

\* ------------------------------------------------ InfrastructurePulse
\* devops_agent/pulse.py: the singleton get_pulse() returns, its start() and
\* stop(), the _pulse_loop task and the _update_global_index it gathers.
MaxStartCalls == 3    \* start() calls a behaviour issues
MaxPulseTime  == 62   \* seconds a behaviour of the pulse lasts
MaxPulseItems == 1    \* items a list call of the pulse returns

\* intervals["global_index"] and the age at which a name is pruned
global_index_interval == 60
prune_age == 300

Providers  == {"local_k8s", "remote_k8s"}
Categories == {"pods", "deployments"}

\* the items of a list result: p.get("name") is a name or None
PulseItems == { [name |-> web, namespace |-> "default"],
                [name |-> None, namespace |-> "default"] }

\* what call_tool_async returns to scan_provider: a dict whose "success" is
\* true with its items, or one whose "success" is false
PulseResults ==
    { [success |-> TRUE, items |-> items] : items \in SeqsUpTo(PulseItems, MaxPulseItems) }
        \cup { [success |-> FALSE, items |-> << >>] }

\* status_cache["global_index"] as __init__ leaves it: "resources" is {}
InitialIndex == [resources |-> EmptyDict, last_check |-> 0]

\* the entry of provider_id and ns in a list of entries, 0 when there is none
RECURSIVE EntryOf(_, _, _, _)
EntryOf(entries, provider_id, ns, i) ==
    IF i > Len(entries) THEN 0
    ELSE IF entries[i].mcp = provider_id /\ entries[i].ns = ns THEN i
    ELSE EntryOf(entries, provider_id, ns, i + 1)

\* lines 181-190 (198-206) for one named item: the entry of the provider is
\* refreshed, or appended when there is none
Seen(names, name, provider_id, ns, t) ==
    LET entries == IF name \in DOMAIN names THEN names[name] ELSE << >>
        i       == EntryOf(entries, provider_id, ns, 1)
    IN  SetKey(names, name,
               IF i = 0
               THEN Append(entries, [mcp |-> provider_id, ns |-> ns, last_seen |-> t])
               ELSE [entries EXCEPT ![i].last_seen = t])

\* the loop over the items of one successful list call; new_index[category]
\* raises KeyError when the index has no such category, and scan_provider's
\* `except Exception: pass` ends the scan of that provider there
RECURSIVE ScanItems(_, _, _, _, _, _)
ScanItems(index, category, items, provider_id, t, i) ==
    IF i > Len(items) THEN [index |-> index, raised |-> FALSE]
    ELSE IF items[i].name = None
    THEN ScanItems(index, category, items, provider_id, t, i + 1)
    ELSE IF category \notin DOMAIN index THEN [index |-> index, raised |-> TRUE]
    ELSE ScanItems(SetKey(index, category,
                          Seen(index[category], items[i].name, provider_id,
                               items[i].namespace, t)),
                   category, items, provider_id, t, i + 1)

\* lines 158-168: the names all of whose entries are older than the threshold
\* leave their category; a category the index lacks is skipped
Stale(entries, prune_threshold) ==
    \A i \in 1..Len(entries) : entries[i].last_seen < prune_threshold
PruneIndex(index, t) ==
    [c \in DOMAIN index |->
        IF c \in Categories
        THEN [n \in {m \in DOMAIN index[c] : ~Stale(index[c][m], t - prune_age)}
                  |-> index[c][n]]
        ELSE index[c]]

\* a _pulse_loop task: where it is suspended, whether cancel() was asked of it,
\* its _update_global_index (refresh), where each scan_provider of it is, and
\* the names the successful list calls of that refresh returned so far
NoneSeen == [p \in Providers |-> [c \in Categories |-> {}]]
NewLoop == [state |-> "created", cancel |-> FALSE, wake |-> 0, refresh |-> "none",
            scan |-> [p \in Providers |-> "done"], seen |-> NoneSeen]

\* the names of the items of a list result
Names(items) == {items[i].name : i \in 1..Len(items)} \ {None}

\* a task that has left its coroutine
Done(task) == task.state \in {"cancelled", "failed", "finished"}

\* time.time() when the process starts: past every interval since last_check 0
PulseStart == global_index_interval

\* ------------------------------------------------ the interactive chat
\* devops_agent/cli.py chat_command and cli_helper.process_command_turn, with
\* the SessionManager of database/session_manager.py
MaxTurns == 3      \* turns and chats a behaviour of the command line has

\* the longest content the history keeps whole
history_limit == 500

\* Message(role, content); a content is its text and its length
Message(role, text, len) == [role |-> role, text |-> text, len |-> len]

\* what users type at the prompt
ChatQueries == { [text |-> <<"list pods">>, len |-> 9],
                 [text |-> <<"list remote pods">>, len |-> 16] }

\* what process_query_with_status_check returns: the calls, the output, and
\* for an ambiguous call the choice the user then types
ResultPkgs ==
    { [tool_calls |-> tc, output |-> out, disambiguation_needed |-> FALSE,
       choice |-> "none"] :
          tc \in {<<>>, <<"remote_k8s_list_pods">>},
          out \in {[text |-> <<"2 pods">>, len |-> 6],
                   [text |-> <<"logs">>, len |-> 600]} }
      \cup
    { [tool_calls |-> <<"k8s_list_pods">>, output |-> [text |-> <<"2 pods">>, len |-> 6],
       disambiguation_needed |-> TRUE, choice |-> ch] : ch \in {"valid", "invalid"} }

\* lines 40-43: a system output of more than 500 characters is cut to 500
\* and marked
SystemOutputMark == <<"[System Output] ">>
Truncated(msg) ==
    IF Len(msg.text) > 0 /\ msg.text[1] = SystemOutputMark[1] /\ msg.len > history_limit
    THEN Message(msg.role, msg.text \o <<"... (truncated)">>, history_limit + 15)
    ELSE msg

\* lines 35-45: the history handed to the agent, made of session.messages
RECURSIVE HistoryOf(_)
HistoryOf(msgs) ==
    IF msgs = << >> THEN << >>
    ELSE IF Head(msgs).role = "system" THEN HistoryOf(Tail(msgs))
    ELSE <<Truncated(Head(msgs))>> \o HistoryOf(Tail(msgs))

\* lines 78-93: the messages a turn logs after the agent answered
Logged(result_pkg) ==
    (IF result_pkg.tool_calls # << >>
     THEN <<Message("assistant", result_pkg.tool_calls, Len(result_pkg.tool_calls))>>
     ELSE << >>)
    \o <<Message("user", SystemOutputMark \o result_pkg.output.text,
                 result_pkg.output.len + 16)>>

\* ------------------------------------------------ the event loop
\* the tasks of one event loop around the agent call of process_query_async
MaxBeats == 2      \* passes of the pulse loop in a behaviour of the event loop

\* the turns that run concurrently on the loop
TurnIds == {"a", "b"}

\* the agent-mode chat stream (api_server.py, chat_stream)
MaxLogs   == 2      \* log_callback calls of the agent in one stream
MaxPolls  == 2      \* timeouts of queue.get in one stream
MaxChunks == 2      \* chunks of chunk_size characters the output has

NoResponse == [kind |-> "unbound", calls |-> << >>, text |-> << >>, data |-> NoData]

NoPrediction == [kind |-> "unbound", calls |-> << >>, text |-> << >>]

\* ------------------------------------------------------------- results
\* final_output: the formatted lines, and the expert opinion put before them
Output(op, ls) == [opinion |-> op, lines |-> ls]
NoOutput == Output(FALSE, << >>)

\* the dict a turn returns; confirmation_request is absent (<< >>) or one
Result(k, out, calls, conf) ==
    [kind |-> k, output |-> out, tool_calls |-> calls, confirmation_request |-> conf]
NoResult == Result("none", NoOutput, << >>, << >>)

\* FormatterRegistry.format(tool_name, result) keeps what it was given
Line(tool_name, res) == [tool |-> tool_name, result |-> res]

\* a faulty formatter that reads the namespace off a key the result lacks
formatNoNamespace(tool_name, res) ==
    IF Contains(tool_name, <<"list", "_", "pod", "s">>)
    THEN [text  |-> IF res.pods = << >> THEN "No pods in" ELSE "Kubernetes Pods in",
          ns    |-> IF "ns" \in DOMAIN res THEN res.ns ELSE <<"unknown">>,
          scope |-> IF Contains(tool_name, <<"remote">>) THEN "REMOTE" ELSE "LOCAL",
          rows  |-> [j \in DOMAIN res.pods |-> res.pods[j].name]]
    ELSE [text |-> "other", ns |-> << >>, scope |-> "", rows |-> << >>]

\* KubernetesFormatter.format for a list_pods result: the sentence for an
\* empty listing or the table of the pods, with the namespace the result
\* names and the scope read off the tool name
format(tool_name, res) ==
    IF Contains(tool_name, <<"list", "_", "pod", "s">>)
    THEN [text  |-> IF res.pods = << >> THEN "No pods in" ELSE "Kubernetes Pods in",
          ns    |-> IF "namespace" \in DOMAIN res THEN res.namespace ELSE <<"unknown">>,
          scope |-> IF Contains(tool_name, <<"remote">>) THEN "REMOTE" ELSE "LOCAL",
          rows  |-> [j \in DOMAIN res.pods |-> res.pods[j].name]]
    ELSE [text |-> "other", ns |-> << >>, scope |-> "", rows |-> << >>]

\* what the list_pods tool answers: the pods, and the namespace it was
\* asked for ("default" when it was given none)
ListPodsResult(arguments, items) ==
    [success |-> TRUE, pods |-> items,
     namespace |-> IF "namespace" \in DOMAIN arguments
                   THEN arguments["namespace"] ELSE <<"default">>]

\* an entry of the response cache
CacheEntry(q, out, calls) == [query |-> q, output |-> out, tool_calls |-> calls]

\* the cache an earlier turn has left: the answer to one query
InitialCache ==
    {CacheEntry(<<Wd("check"), Wd("the"), nodes>>,
                Output(FALSE,
                       <<Line(remote_k8s_list_nodes,
                              call_tool_async(remote_k8s_list_nodes, EmptyDict, "result_ok"))>>),
                <<cRemoteNodes>>)}

\* sem_cache.lookup(query): the stored answer, or NoResult for None
lookup(cache, q) ==
    IF \E e \in cache : e.query = q
    THEN LET e == CHOOSE e \in cache : e.query = q
         IN Result("cached", e.output, e.tool_calls, << >>)
    ELSE NoResult

\* retriever.retrieve(query, top_k=8): the shortlist handed to the agent
Shortlists == {all_tools_schema, RemoteK8sToolsSchema}

insight_keywords ==
    { <<"why">>, <<"compare">>, <<"is", " ", "it">>, <<"difference">>, <<"risk">>,
      <<"opinion">>, <<"same", " ", "as">>, <<"better">> }

is_insight_intent(q) ==
    \E k \in insight_keywords : Contains(Lower(QueryText(q)), k)


\* ------------------------------------------------------------- state
VARIABLES
    pc,             \* where the turn is
    mode,           \* "query": process_query_async, "direct": execute_tool_calls_async
    query,          \* the query of the turn
    history,        \* the session history passed in
    instant_tools,  \* what router.route returned
    cached_result,  \* what sem_cache.lookup returned
    tools_schema,   \* the schema handed to the agent
    prediction,     \* the last model response forward holds
    attempt,        \* careful attempts made
    last_error,     \* forward's last_error
    tool_calls,     \* the resolved calls
    pre_calls,      \* the calls as they entered disambiguation
    tasks,          \* the scheduled (index, tool_name, coroutine) triples
    returned,       \* task number -> value its coroutine returned
    completion,     \* task numbers in the order their coroutines finished
    dispatched,     \* every request the turn posted to a backend, in order
    lm_requests,    \* the kind of every language-model request, in order
    cache_lookups,  \* calls of sem_cache.lookup
    retrievals,     \* calls of retriever.retrieve
    sem_cache,      \* the response cache
    result,         \* what the turn returned
    approvals,      \* the posts to /api/chat/confirm, with how each ended
    listed,         \* the items the listings of the turn returned
    modified_query, \* the prompt of forward's last careful request, until the
                    \* turn goes on with what forward returned
    verdict         \* how the responses to forward's requests have fared:
                    \* "valid" once one validated, "invalid" while every one
                    \* failed validation, "mixed" once a request raised

\* the episodic memory, context_cache.py
VARIABLES
    _cache,         \* ContextCache._cache: session id -> name -> ResourceEntity
    _last_mcp_map,  \* ContextCache._last_mcp_map: session id -> backend id
    now,            \* what time.time() returns
    snapshot,       \* what the last get_context_block returned
    last_op,        \* the last operation on the memory, its session id and its time
    ops,            \* operations made on the memory
    written,        \* session id -> name -> details and time of the latest
                    \* write since the session was last cleared
    before          \* last_op, snapshot and _cache as the last operation found them

\* the parsers of a model response, agent_module.py and llm/ollama_client.py
VARIABLES
    response,       \* the response of the language model the parsers are given
    parse_pc,       \* "idle", "responded", "validated", "got"
    validated,      \* what _validate_and_parse returned for it
    got             \* what get_tool_calls returned for it

\* the sequential agent, agentic_docker/agent.py process_query
VARIABLES
    seq_pc,         \* "idle", "confirm", "execute", "done"
    seq_tool_calls, \* what get_tool_calls returned
    seq_index,      \* the position in tool_calls the loop is at, from 1
    final_results,  \* the entries appended so far
    posted,         \* every request posted to a backend, in order
    seq_log,        \* the confirmations asked and the calls dispatched, in order
    seq_output      \* what process_query returned

\* the tool registry, agentic_docker/tools/registry.py
VARIABLES
    _tools,         \* ToolRegistry._tools: the (name, instance) items in dict order
    made,           \* instances constructed so far
    registrations,  \* the instance each call of register constructed, in order
    reg_answer      \* the last lookup since the last registration, and what
                    \* it returned

\* the supervisors, devops_agent/launcher.py
VARIABLES
    lpc,            \* supervisor -> where its start_all is
    lockfile,       \* the content of LOCK_FILE
    found           \* supervisor -> what its check_lock found

\* the session repository, devops_agent/database/db.py
VARIABLES
    foreign_keys,   \* "closed" before _init_db, then whether the SQLite library
                    \* enforces foreign keys on a connection that sets no pragma
    sessions,       \* the ids of the rows of table sessions
    messages,       \* the rows of table messages, by id
    db_answer,      \* the last call and what it returned
    db_before,      \* the tables as the last call found them
    fresh           \* the sessions created right after a successful delete of
                    \* their id that got no message since

\* the background pulse, devops_agent/pulse.py
VARIABLES
    _running,       \* InfrastructurePulse._running
    _task,          \* InfrastructurePulse._task: 0 for None, else a loop task
    loops,          \* the _pulse_loop tasks created so far
    start_tasks,    \* start() coroutines turns have scheduled that did not run yet
    start_calls,    \* start() calls issued so far
    lifespan,       \* where the lifespan hook of the API server is
    awaited,        \* the task stop() awaits, 0 when it awaits none
    global_index,   \* status_cache["global_index"]
    refreshed,      \* the last refresh that was stored: when, and the names the
                    \* successful list calls of each provider returned in it
    ptime           \* time.time()

\* the interactive chat of the command line
VARIABLES
    chat_pc,          \* "none" before chat_command has its session, then "chat"
    store,            \* the rows of the session in the database, in id order
    session_messages, \* current_session.messages, the list the Session object holds
    turns,            \* turns and chats so far
    passed,           \* the history each turn of this chat passed to the agent
    logs              \* the messages each turn of this chat wrote to the store

\* the event loop and the tasks on it
VARIABLES
    lc,             \* turn -> where process_query_async is
    thread,         \* the turn whose code holds the thread of the loop, or "none"
    lm_calls,       \* turn -> the requests its agent call has sent so far
    prefetch,       \* turn -> its speculative prefetch task
    beats           \* passes of the pulse loop so far

\* the batch describe, step by step
VARIABLES
    bd_pc,          \* where the turn is: idle, gather, loop, describe, done
    bd_calls,       \* tool_calls
    bd_results,     \* execution_results: call index -> what its coroutine returned
    bd_i,           \* the index of the result loop
    describe_tasks, \* the describe coroutines of the call the loop is at
    bd_log,         \* the requests posted, the returns and the aggregations, in order
    bd_batches      \* call index -> the batch result made for it

\* the agent-mode chat stream
VARIABLES
    gen_pc,             \* event_generator: idle, waiting (at queue.get), stopped
    queue,              \* the asyncio.Queue between run_agent and the generator
    agent_task,         \* the run_agent task: none, pending, running, done
    forced,             \* whether run_agent was given forced backends
    collected_thoughts, \* the thoughts the generator has collected
    sse,                \* what the generator yielded and stored, in order
    produced,           \* how the agent ended: none, result, exception
    agent_logs,         \* log_callback calls of the agent so far
    polls               \* timeouts of queue.get so far

turnVars == <<pc, mode, query, history, instant_tools, cached_result, tools_schema,
              prediction, attempt, last_error, tool_calls, pre_calls, tasks, returned,
              completion, dispatched, lm_requests, cache_lookups, retrievals,
              sem_cache, result, approvals, listed, verdict, modified_query>>

memVars == <<_cache, _last_mcp_map, now, snapshot, last_op, ops, written, before>>

\* the parsers of a model response: what each made of the last response
parseVars == <<response, parse_pc, validated, got>>

\* the sequential agent of agentic_docker
seqVars == <<seq_pc, seq_tool_calls, seq_index, final_results, posted, seq_log, seq_output>>

\* the tool registry
regVars == <<_tools, made, registrations, reg_answer>>

\* the supervisors and their lockfile
lockVars == <<lpc, lockfile, found>>

\* the session repository
dbVars == <<foreign_keys, sessions, messages, db_answer, db_before, fresh>>

\* the background pulse
pulseVars == <<_running, _task, loops, start_tasks, start_calls, lifespan, awaited,
               global_index, refreshed, ptime>>

\* the components of the API server and of the command line
\* the interactive chat
cliVars == <<chat_pc, store, session_messages, turns, passed, logs>>

\* the event loop
loopVars == <<lc, thread, lm_calls, prefetch, beats>>

\* the batch describe, step by step
batchVars == <<bd_pc, bd_calls, bd_results, bd_i, describe_tasks, bd_log, bd_batches>>

\* the agent-mode chat stream
streamVars == <<gen_pc, queue, agent_task, forced, collected_thoughts, sse, produced,
                agent_logs, polls>>

extVars == <<pulseVars, cliVars, loopVars, batchVars, streamVars>>

\* the components that are no part of a turn or of the memory
compVars == <<parseVars, seqVars, regVars, lockVars, dbVars, extVars>>

vars == <<turnVars, memVars, compVars>>

resolveVars == <<instant_tools, cached_result, tools_schema, prediction, attempt,
                 last_error, lm_requests, cache_lookups, retrievals, verdict>>
execVars == <<tasks, returned, completion, dispatched>>

Init ==
    /\ pc = "idle"
    /\ mode = "none"
    /\ query = << >>
    /\ history = << >>
    /\ instant_tools = NoCalls
    /\ cached_result = NoResult
    /\ tools_schema = all_tools_schema
    /\ prediction = NoPrediction
    /\ attempt = 0
    /\ last_error = ""
    /\ tool_calls = NoCalls
    /\ pre_calls = NoCalls
    /\ tasks = << >>
    /\ returned = << >>
    /\ completion = << >>
    /\ dispatched = << >>
    /\ lm_requests = << >>
    /\ cache_lookups = 0
    /\ retrievals = 0
    /\ sem_cache = InitialCache
    /\ result = NoResult
    /\ approvals = << >>
    /\ listed = << >>
    /\ verdict = "none"
    /\ modified_query = NoPrompt
    /\ _cache = << >>
    /\ _last_mcp_map = << >>
    /\ now = 0
    /\ snapshot = << >>
    /\ last_op = [op |-> "none", session_id |-> "", at |-> 0]
    /\ ops = 0
    /\ written = << >>
    /\ before = [last_op |-> [op |-> "none", session_id |-> "", at |-> 0],
                 snapshot |-> << >>, _cache |-> << >>]
    /\ response = NoResponse
    /\ parse_pc = "idle"
    /\ validated = NoCalls
    /\ got = << >>
    /\ foreign_keys = "closed"
    /\ sessions = {}
    /\ messages = << >>
    /\ db_answer = NoDbAnswer
    /\ db_before = [sessions |-> {}, messages |-> << >>]
    /\ fresh = {}
    /\ lpc = [l \in Launchers |-> "idle"]
    /\ lockfile = NoLockFile
    /\ found = [l \in Launchers |-> "none"]
    /\ _tools = << >>
    /\ made = 0
    /\ registrations = << >>
    /\ reg_answer = NoAnswer
    /\ seq_pc = "idle"
    /\ seq_tool_calls = << >>
    /\ seq_index = 0
    /\ final_results = << >>
    /\ posted = << >>
    /\ seq_log = << >>
    /\ seq_output = NoSeqOutput
    /\ _running = FALSE
    /\ _task = 0
    /\ loops = << >>
    /\ start_tasks = 0
    /\ start_calls = 0
    /\ lifespan = "init"
    /\ awaited = 0
    /\ global_index = InitialIndex
    /\ refreshed = [at |-> 0, seen |-> NoneSeen]
    /\ ptime = PulseStart
    /\ chat_pc = "none"
    /\ store = << >>
    /\ session_messages = << >>
    /\ turns = 0
    /\ passed = << >>
    /\ logs = << >>
    /\ lc = [t \in TurnIds |-> "new"]
    /\ thread = "none"
    /\ lm_calls = [t \in TurnIds |-> 0]
    /\ prefetch = [t \in TurnIds |-> "none"]
    /\ beats = 0
    /\ bd_pc = "idle"
    /\ bd_calls = << >>
    /\ bd_results = << >>
    /\ bd_i = 0
    /\ describe_tasks = << >>
    /\ bd_log = << >>
    /\ bd_batches = << >>
    /\ gen_pc = "idle"
    /\ queue = << >>
    /\ agent_task = "none"
    /\ forced = FALSE
    /\ collected_thoughts = << >>
    /\ sse = << >>
    /\ produced = "none"
    /\ agent_logs = 0
    /\ polls = 0

\* the turn returns r
Return(r) == pc' = "done" /\ result' = r

\* ------------------------------------------------ process_query_async
\* a caller starts a turn with query q and history h
StartTurn(q, h) ==
    /\ pc = "idle"
    /\ pc' = "route"
    /\ mode' = "query"
    /\ query' = q
    /\ history' = h
    /\ listed' = << >>
    /\ UNCHANGED <<modified_query, resolveVars, tool_calls, pre_calls, execVars, sem_cache,
                   result, approvals>>

\* a faulty guard: the cache is consulted whatever the router returned
ConsultsCacheAlways(instant) == TRUE

\* `if not instant_tools`: the cache is consulted
ConsultsCache(instant) == instant = NoCalls

\* a faulty guard: the agent is asked whatever the cache returned
AsksAgentOnHit(instant, cached) == instant = NoCalls

\* `if not instant_tools and not cached_result`: the agent is asked
AsksAgent(instant, cached) == instant = NoCalls /\ cached = NoResult

\* instant_tools = router.route(query)
Route ==
    /\ pc = "route"
    /\ instant_tools' = route(query)
    /\ IF ConsultsCache(instant_tools')
       THEN pc' = "cache" /\ UNCHANGED tool_calls
       ELSE pc' = "disambiguate" /\ tool_calls' = instant_tools'
    /\ UNCHANGED <<modified_query, verdict, listed, mode, query, history, cached_result, tools_schema, prediction,
                   attempt, last_error, lm_requests, cache_lookups, retrievals,
                   pre_calls, execVars, sem_cache, result, approvals>>

\* cached_result = await sem_cache.lookup(query); a hit is returned as it is
CacheLookup ==
    /\ pc = "cache"
    /\ cache_lookups' = cache_lookups + 1
    /\ cached_result' = lookup(sem_cache, query)
    /\ IF AsksAgent(instant_tools, cached_result')
       THEN pc' = "shortlist" /\ UNCHANGED <<result, tool_calls>>
       ELSE IF cached_result' # NoResult
       THEN Return(cached_result') /\ UNCHANGED tool_calls
       ELSE pc' = "disambiguate" /\ tool_calls' = instant_tools /\ UNCHANGED result
    /\ UNCHANGED <<modified_query, verdict, listed, mode, query, history, instant_tools, tools_schema, prediction,
                   attempt, last_error, lm_requests, retrievals, pre_calls,
                   execVars, sem_cache, approvals>>

\* relevant_tools = await retriever.retrieve(query, top_k=8), and what
\* follows up to the call of the agent.  When the retrieval raises (~rag_ok)
\* the schema is loaded by group and a pod the query names is prefetched;
\* either way the live state is fetched for the prompt, inside a try block:
\* an exception its except clauses do not catch leaves the turn.
Shortlist(schema, rag_ok, remote_up, ctx, elapsed) ==
    /\ pc = "shortlist"
    \* ctx is read when the fetches end in time, elapsed when there are fetches
    /\ TimedOut(elapsed) => ctx = "result_ok"
    /\ ContextFetches(query, remote_up, ctx, elapsed) = << >>
       => ctx = "result_ok" /\ ~TimedOut(elapsed)
    /\ retrievals' = retrievals + 1
    /\ tools_schema' = schema
    /\ dispatched' = dispatched
                     \o (IF rag_ok THEN << >> ELSE SpeculativePrefetch(query))
                     \o ContextFetches(query, remote_up, ctx, elapsed)
    /\ LET exc == ContextError(ContextFetches(query, remote_up, ctx, elapsed))
       IN IF exc = "none" \/ ContextCaught(exc)
          THEN pc' = "fast" /\ UNCHANGED result
          ELSE Return(Result("raised", NoOutput, << >>, << >>))
    /\ UNCHANGED <<modified_query, verdict, listed, mode, query, history, instant_tools, cached_result, prediction,
                   attempt, last_error, lm_requests, cache_lookups, tool_calls,
                   pre_calls, tasks, returned, completion, sem_cache, approvals>>

\* forward returns pred (NoPrediction: it had none to return, which the
\* except branch of the caller turns into a result); the caller parses
\* prediction.tool_calls and returns if nothing came out of it.  The
\* arguments and locals of forward are gone.
AfterForward(pred) ==
    /\ IF pred = NoPrediction
       THEN Return(Result("brain_freeze", NoOutput, << >>, << >>)) /\ UNCHANGED tool_calls
       ELSE IF parse_dspy_tool_calls(pred) = NoCalls
       THEN Return(Result("not_understood", NoOutput, << >>, << >>)) /\ UNCHANGED tool_calls
       ELSE /\ tool_calls' = parse_dspy_tool_calls(pred)
            /\ pc' = "disambiguate"
            /\ UNCHANGED result
    /\ prediction' = NoPrediction
    /\ attempt' = 0
    /\ last_error' = ""
    /\ tools_schema' = all_tools_schema

\* how forward's responses have fared once `out` has come in
Verdict(v, out, schema) ==
    IF out.kind = "raise" THEN "mixed"
    ELSE IF ResponseValid(out, schema) THEN "valid"
    ELSE IF v = "mixed" THEN "mixed" ELSE "invalid"

\* forward, attempt 1: the fast zero-shot request
FastRequest(out) ==
    /\ pc = "fast"
    /\ lm_requests' = Append(lm_requests, "fast")
    /\ verdict' = Verdict(verdict, out, tools_schema)
    /\ IF out.kind # "raise" /\ ResponseValid(out, tools_schema)
       THEN AfterForward(out)
       ELSE /\ pc' = "careful"
            /\ prediction' = IF out.kind = "raise" THEN prediction ELSE out
            /\ UNCHANGED <<tools_schema, attempt, last_error, tool_calls, result>>
    /\ UNCHANGED <<modified_query, listed, mode, query, history, instant_tools, cached_result,
                   cache_lookups, retrievals, pre_calls, execVars, sem_cache,
                   approvals>>

\* a faulty loop that makes one pass more
RetryRangePlusOne == 0..(max_retries + 1)

\* range(self.max_retries + 1), the values of `attempt` in the retry loop
RetryRange == 0..max_retries

\* str(e) of the exception a request raised: some exceptions have no text
ExceptionText(out) == IF out.text = << >> THEN "" ELSE "exception"

\* a faulty prompt that names an error on every retry, empty or not
ModifiedQueryOnEveryRetry(q, n, error) ==
    [query |-> q, errors |-> IF n > 0 THEN <<error>> ELSE << >>]

\* modified_query: the query, and on a retry with a last_error the
\* [SYSTEM: ... Error: {last_error} ...] note after it
ModifiedQuery(q, n, error) ==
    [query |-> q, errors |-> IF error # "" /\ n > 0 THEN <<error>> ELSE << >>]

\* forward, attempt 2: one pass of the chain-of-thought retry loop; the
\* pass that leaves the loop returns the last prediction, valid or not
CarefulRequest(out) ==
    /\ pc = "careful"
    /\ attempt \in RetryRange
    /\ lm_requests' = Append(lm_requests, "careful")
    /\ modified_query' = ModifiedQuery(query, attempt, last_error)
    /\ verdict' = Verdict(verdict, out, tools_schema)
    /\ IF out.kind # "raise" /\ ResponseValid(out, tools_schema)
       THEN AfterForward(out)
       ELSE IF attempt + 1 \notin RetryRange
       THEN AfterForward(IF out.kind = "raise" THEN prediction ELSE out)
       ELSE /\ attempt' = attempt + 1
            /\ last_error' = IF out.kind = "raise" THEN ExceptionText(out)
                             ELSE CarefulError(out, tools_schema)
            /\ prediction' = IF out.kind = "raise" THEN prediction ELSE out
            /\ UNCHANGED <<pc, tools_schema, tool_calls, result>>
    /\ UNCHANGED <<listed, mode, query, history, instant_tools, cached_result,
                   cache_lookups, retrievals, pre_calls, execVars, sem_cache,
                   approvals>>

\* the disambiguation loop
Disambiguate ==
    /\ pc = "disambiguate"
    /\ pre_calls' = tool_calls
    /\ tool_calls' = Disambiguation(tool_calls, query, history)
    /\ pc' = "plan"
    /\ modified_query' = NoPrompt
    /\ UNCHANGED <<listed, mode, query, history, resolveVars, execVars, sem_cache, result,
                   approvals>>

\* ------------------------------------------------------ the safety gate
\* a faulty gate: only the first call of the batch is assessed
GateIndexFirstOnly(calls) ==
    IF Len(calls) > 0 /\ analyze_risk(calls[1].name, calls[1].arguments).is_dangerous
    THEN 1 ELSE 0

\* index of the call at which the gate loop returns, 0 when it runs through
GateIndex(calls) ==
    LET flagged == {i \in 1..Len(calls) :
                       analyze_risk(calls[i].name, calls[i].arguments).is_dangerous}
    IN IF flagged = {} THEN 0 ELSE CHOOSE i \in flagged : \A j \in flagged : i <= j

\* the "confirmation_request" member of the dict the gate returns
ConfirmationRequest(call) == [tool |-> call.name, arguments |-> call.arguments]

\* a faulty scheduler that never takes the speculative task
SpeculativeTaskUnused(tool_name, arguments) == 0

\* the request of the speculative task that fetches this very call, 0 for none
SpeculativeTask(tool_name, arguments) ==
    LET same == {r \in DOMAIN dispatched :
                    /\ dispatched[r].origin = "speculative"
                    /\ dispatched[r].name = tool_name
                    /\ dispatched[r].arguments = arguments}
    IN IF same = {} THEN 0 ELSE CHOOSE r \in same : TRUE

\* the gate loop: it returns at the first dangerous call, and otherwise
\* leaves one task per call: the speculative task if it fetches that call,
\* else a new coroutine object, of which nothing runs yet
Plan ==
    /\ pc = "plan"
    /\ LET g == GateIndex(tool_calls) IN
       IF g # 0
       THEN /\ Return(Result("confirmation", NoOutput, tool_calls,
                             <<ConfirmationRequest(tool_calls[g])>>))
            /\ UNCHANGED tasks
       ELSE IF Len(tool_calls) = 0
       THEN /\ Return(Result("cancelled", NoOutput, tool_calls, << >>))
            /\ UNCHANGED tasks
       ELSE /\ tasks' = [i \in 1..Len(tool_calls) |->
                            [index |-> i, tool_name |-> tool_calls[i].name,
                             arguments |-> tool_calls[i].arguments,
                             request |-> SpeculativeTask(tool_calls[i].name,
                                                         tool_calls[i].arguments)]]
            /\ pc' = "gather"
            /\ UNCHANGED result
    /\ history' = << >>
    /\ UNCHANGED <<modified_query, listed, mode, query, resolveVars, tool_calls, pre_calls, returned,
                   completion, dispatched, sem_cache, approvals>>

\* the tasks of ts that are new coroutines, in order
NewTasks(ts) ==
    LET IsNew(t) == t.request = 0 IN SelectSeq(ts, IsNew)

\* asyncio.gather(*coroutines) starts every new coroutine: each posts its
\* request; the speculative task posted its own when it was created
Dispatch ==
    /\ pc = "gather"
    /\ dispatched' = dispatched \o
           [n \in 1..Len(NewTasks(tasks)) |->
               Request("batch", NewTasks(tasks)[n].index, NewTasks(tasks)[n].tool_name,
                       NewTasks(tasks)[n].arguments)]
    /\ tasks' = [k \in 1..Len(tasks) |->
                    IF tasks[k].request # 0 THEN tasks[k]
                    ELSE [tasks[k] EXCEPT !.request =
                             Len(dispatched) + Len(NewTasks(SubSeq(tasks, 1, k)))]]
    /\ pc' = "await"
    /\ UNCHANGED <<modified_query, listed, mode, query, history, resolveVars, tool_calls, pre_calls,
                   returned, completion, sem_cache, result, approvals>>

\* the position in dispatched of the request task k awaits
RequestOf(k) == tasks[k].request

RECURSIVE Ascending(_)
\* the numbers of S in ascending order
Ascending(S) ==
    IF S = {} THEN << >>
    ELSE LET m == CHOOSE x \in S : \A y \in S : x <= y
         IN <<m>> \o Ascending(S \ {m})

\* the exchange task k awaits ends with outcome o and its coroutine returns;
\* calls that were given the same speculative task get the same value
Complete(k, o) ==
    /\ pc = "await"
    /\ k \in 1..Len(tasks)
    /\ k \notin DOMAIN returned
    /\ LET same == {j \in 1..Len(tasks) : RequestOf(j) = RequestOf(k)} IN
       /\ returned' = [j \in same |->
                          call_tool_async(tasks[k].tool_name, tasks[k].arguments, o)]
                      @@ returned
       /\ completion' = completion \o Ascending(same)
    /\ dispatched' = [dispatched EXCEPT ![RequestOf(k)].outcome = o]
    /\ UNCHANGED <<modified_query, listed, pc, mode, query, history, resolveVars, tool_calls, pre_calls,
                   tasks, sem_cache, result, approvals>>

\* a faulty gather: the results come in the order the coroutines finished
gatherAsCompleted(n, ret, order) == [i \in 1..n |-> ret[order[i]]]

\* results = await asyncio.gather(*coroutines): in the order of the arguments
gather(n, ret, order) == [i \in 1..n |-> ret[i]]

\* execution_results[original_idx] = (tool_name, res)
ExecutionResults(ts, results) ==
    [idx \in {ts[i].index : i \in 1..Len(ts)} |->
        results[CHOOSE i \in 1..Len(ts) : ts[i].index = idx]]

\* the items a listing returned: item.get("name") is a name or None
ItemPool ==
    { [name |-> web, phase |-> "Running"],
      [name |-> <<"db">>, phase |-> "Failed"],
      [name |-> None, phase |-> "Pending"] }
ListedItems == SeqsUpTo(ItemPool, MaxItems)

\* how the exchange of one describe call ends
DescribeOutcomes == {"result_ok", "rpc_error", "timeout"}

\* the items a describe task is built for: `if not name: continue`
Named(items) ==
    LET HasName(item) == item.name # None IN SelectSeq(items, HasName)

\* the tool and the arguments of the describe call for one item name
DescribeCall(call, name) ==
    LET resource_type == call._batch_resource_type
        prefix        == call._batch_prefix
        namespace     == IF "namespace" \in DOMAIN call.arguments
                         THEN call.arguments["namespace"] ELSE <<"default">>
        a0 == IF resource_type # <<"node">>
              THEN SetKey(EmptyDict, "namespace", namespace) ELSE EmptyDict
        key == CASE resource_type = <<"pod">> -> "pod_name"
                 [] resource_type = <<"node">> -> "node_name"
                 [] resource_type = <<"deployment">> -> "deployment_name"
                 [] resource_type = <<"service">> -> "service_name"
                 [] OTHER -> "name"
    IN [name |-> IF resource_type = <<"service">>
                 THEN prefix \o <<"get", "_", "service">>
                 ELSE prefix \o <<"describe", "_">> \o resource_type,
        arguments |-> SetKey(a0, key, name)]

\* describe_tasks of _execute_batch_describe for call number i: one request
\* for each named item, in the order of the items; task n ends with outs[n]
DescribeRequests(i, call, items, outs) ==
    [n \in 1..Len(Named(items)) |->
        [Request("describe", i, DescribeCall(call, Named(items)[n].name).name,
                 DescribeCall(call, Named(items)[n].name).arguments)
            EXCEPT !.outcome = outs[n]]]

\* a faulty aggregation that pairs each named item with its own describe
BatchOutputNamed(call, items, outs) ==
    [j \in 1..Len(Named(items)) |->
        [name   |-> Named(items)[j].name,
         status |-> Named(items)[j].phase,
         about  |-> Named(items)[j].name,
         error  |-> ~call_tool_async(DescribeCall(call, Named(items)[j].name).name,
                                     DescribeCall(call, Named(items)[j].name).arguments,
                                     outs[j]).success]]

\* batch_output: zip(items, describe_results) pairs item j with the result
\* of describe task j and stops at the shorter of the two; `about` is the
\* resource the describe result of the entry is about
BatchOutput(call, items, outs) ==
    [j \in 1..Len(Named(items)) |->
        [name   |-> IF items[j].name # None THEN items[j].name
                    ELSE <<"Resource ", j>>,
         status |-> items[j].phase,
         about  |-> Named(items)[j].name,
         error  |-> ~call_tool_async(DescribeCall(call, Named(items)[j].name).name,
                                     DescribeCall(call, Named(items)[j].name).arguments,
                                     outs[j]).success]]

\* what _execute_batch_describe returns for a listing with items
BatchResult(call, items, outs) ==
    [success |-> TRUE, raised |-> FALSE, error |-> << >>, _batch |-> TRUE,
     resources |-> BatchOutput(call, items, outs),
     count |-> Len(BatchOutput(call, items, outs))]

\* the call is a batch describe whose listing succeeded: the post-processor runs
IsBatchDescribed(call, res) == "_batch_describe" \in DOMAIN call /\ res.success

\* final_output_lines of process_query_async: a batch describe call whose
\* listing succeeded with items gets the batch result, since
\* _execute_batch_describe returns None for `not items`
FinalLines(calls, ts, results, items, outs) ==
    [i \in 1..Len(calls) |->
        IF i \in DOMAIN ExecutionResults(ts, results)
        THEN Line(calls[i].name,
                  IF IsBatchDescribed(calls[i], ExecutionResults(ts, results)[i])
                     /\ items # << >>
                  THEN BatchResult(calls[i], items, outs)
                  ELSE ExecutionResults(ts, results)[i])
        ELSE Line(calls[i].name, [success |-> FALSE, raised |-> FALSE,
                                  error |-> <<"cancelled by user">>])]

\* a faulty guard that runs the expert opinion pass for every output
ExpertOpinionPassAlways(q, ls) == Len(ls) > 0

\* `if is_insight_intent and final_output`: the expert opinion pass runs,
\* whichever stage resolved the query
ExpertOpinionPass(q, ls) == is_insight_intent(q) /\ Len(ls) > 0

\* `if not instant_tools and not cached_result and tool_calls and final_output`
AddsToCache(instant, cached, calls, ls) ==
    instant = NoCalls /\ cached = NoResult /\ Len(calls) > 0 /\ Len(ls) > 0

RECURSIVE BatchDescribes(_, _, _, _, _)
\* the describe requests of the result loop, from call number i on: a call
\* the router marked _batch_describe whose listing succeeded is described
BatchDescribes(calls, done, items, outs, i) ==
    IF i > Len(calls) THEN << >>
    ELSE (IF i \in DOMAIN done /\ IsBatchDescribed(calls[i], done[i])
          THEN DescribeRequests(i, calls[i], items, outs)
          ELSE << >>)
         \o BatchDescribes(calls, done, items, outs, i + 1)

\* what the listings of the turn can hold (they all hold the same): the
\* items are read by the batch describe and by the formatter of list_pods,
\* when such a call has returned with success
Listings ==
    IF /\ mode = "query"
       /\ DOMAIN returned = 1..Len(tasks)
       /\ \E k \in DOMAIN tasks :
              /\ "_batch_describe" \in DOMAIN tool_calls[tasks[k].index]
              /\ returned[k].success
    THEN ListedItems
    ELSE IF /\ mode = "query"
            /\ DOMAIN returned = 1..Len(tasks)
            /\ \E k \in DOMAIN tasks :
                   /\ Contains(tasks[k].tool_name, <<"list", "_">> \o pods)
                   /\ returned[k].success
    THEN {<< >>, <<[name |-> web, phase |-> "Running"]>>}
    ELSE {<< >>}

\* every coroutine has returned: gather hands the results over, the lines
\* are built in call order, the insight pass runs for an insight query, the
\* answer is cached and the turn returns.  An exception out of a coroutine
\* leaves gather and the turn at once, whatever the other coroutines are
\* doing; execute_tool_calls_async reads the undefined name compression_mode
\* when it formats a dict result.
Aggregate(insight, items, outs) ==
    /\ pc = "await"
    \* items is read for a batch describe call only, outs has an outcome
    \* for each describe task, insight is read for an insight query only
    /\ items \in Listings
    /\ DOMAIN outs = 1..Len(Named(items))
    /\ insight => is_insight_intent(query)
    /\ \/ DOMAIN returned = 1..Len(tasks)
       \/ \E k \in DOMAIN returned : returned[k].raised
    /\ LET results == gather(Len(tasks), returned, completion)
           ls == FinalLines(tool_calls, tasks, results, items, outs)
           asks == ExpertOpinionPass(query, ls)
       IN IF \E k \in DOMAIN returned : returned[k].raised
          THEN /\ Return(Result("raised", NoOutput, << >>, << >>))
               /\ UNCHANGED <<lm_requests, sem_cache, dispatched>>
          ELSE IF mode = "direct"
          THEN /\ Return(Result("raised", NoOutput, << >>, << >>))
               /\ UNCHANGED <<lm_requests, sem_cache, dispatched>>
          ELSE /\ dispatched' = dispatched \o
                      BatchDescribes(tool_calls, ExecutionResults(tasks, results),
                                     items, outs, 1)
               /\ lm_requests' = IF asks
                                 THEN Append(lm_requests, "insight")
                                 ELSE lm_requests
               /\ sem_cache' = IF AddsToCache(instant_tools, cached_result, tool_calls, ls)
                               THEN sem_cache \cup
                                    {CacheEntry(query, Output(asks /\ insight, ls), tool_calls)}
                               ELSE sem_cache
               /\ Return(Result("executed", Output(asks /\ insight, ls), tool_calls, << >>))
    /\ tasks' = << >>
    /\ returned' = << >>
    /\ listed' = items
    /\ UNCHANGED <<modified_query, verdict, mode, query, history, instant_tools, cached_result, tools_schema,
                   prediction, attempt, last_error, cache_lookups, retrievals,
                   tool_calls, pre_calls, completion, approvals>>

\* ------------------------------------------------ the batch describe, step by step
\* process_query_async from its gather (agent.py:556-586) and
\* _execute_batch_describe (640-746), with every request and every return
\* of a coroutine a step of its own

\* the calls of the turns: what the router makes of a bulk query, and a
\* plain listing
BatchQueries ==
    { <<Wd("describe"), Wd("all"), pods>>,
      <<Wd("describe"), Wd("all"), Wd("remote"), pods>>,
      <<Wd("describe"), Wd("all"), nodes>> }
BatchTurns == {route(q) : q \in BatchQueries} \cup {<<cRemoteNodes>>}

\* what a list call returns: its items, or a failure
ListAnswers ==
    { [success |-> TRUE, items |-> items] : items \in ListedItems }
        \cup { [success |-> FALSE, items |-> << >>] }

\* describe_tasks: one coroutine for each named item, none of them started
DescribeTasks(call, items) ==
    [n \in 1..Len(Named(items)) |->
        [name |-> DescribeCall(call, Named(items)[n].name).name,
         arguments |-> DescribeCall(call, Named(items)[n].name).arguments,
         state |-> "new"]]

\* a faulty gather that awaits the coroutines one after the other: it starts
\* the first that was not started
StartsFirst(tasks_) ==
    LET new == {n \in DOMAIN tasks_ : tasks_[n].state = "new"}
    IN IF new = {} THEN {} ELSE {CHOOSE n \in new : \A m \in new : n <= m}

\* asyncio.gather(*describe_tasks, return_exceptions=True) makes a task of
\* every coroutine: the tasks it starts
Starts(tasks_) ==
    {n \in DOMAIN tasks_ : tasks_[n].state = "new"}

\* ------------------------------------------- execute_tool_calls_async
\* the batches a caller hands to execute_tool_calls_async
DirectBatches == SeqsUpTo(CallPool, MaxCalls)

\* a caller hands calls to execute_tool_calls_async: no resolution, no
\* disambiguation, the gate comes first
StartExecute(calls) ==
    /\ pc = "idle"
    /\ pc' = "plan"
    /\ mode' = "direct"
    /\ tool_calls' = calls
    /\ listed' = << >>
    /\ UNCHANGED <<modified_query, query, history, resolveVars, pre_calls, execVars, sem_cache,
                   result, approvals>>

\* ------------------------------------------------ /api/chat/confirm
\* the bodies a caller posts
ConfirmBodies ==
    { cStop,
      Call(docker_stop_container, SetKey(EmptyDict, "container_id", <<"db">>)),
      cRemoteNodes }

\* confirm_action_api: its second statement, `from .agent import
\* format_tool_result`, raises ImportError, for agent.py defines no such
\* name; the handler ends there, before the try block that would call the
\* posted tool, and the caller gets the server's error response
Confirm(body) ==
    /\ pc = "idle" \/ (pc = "done" /\ result.confirmation_request # << >>)
    /\ Len(approvals) < MaxConfirms
    /\ approvals' = Append(approvals,
           [tool |-> body.name, arguments |-> body.arguments, raised |-> TRUE])
    /\ pc' = "done"
    /\ mode' = IF pc = "idle" THEN "confirm" ELSE mode
    /\ UNCHANGED <<modified_query, listed, query, history, resolveVars, tool_calls, pre_calls, execVars,
                   sem_cache, result>>

\* ---------------------------------------------------------------- next
\* the turns are started without a session id (the default of
\* process_query_async), so they leave the episodic memory alone
Next ==
    \/ pc = "idle" /\ UNCHANGED <<memVars, compVars>> /\ \E t \in Turns : StartTurn(t[1], t[2])
    \/ Route /\ UNCHANGED <<memVars, compVars>>
    \/ CacheLookup /\ UNCHANGED <<memVars, compVars>>
    \/ pc = "shortlist" /\ UNCHANGED <<memVars, compVars>>
          /\ \E schema \in Shortlists, rag_ok, remote_up \in BOOLEAN,
                ctx \in ContextOutcomes, elapsed \in ElapsedTimes :
                 Shortlist(schema, rag_ok, remote_up, ctx, elapsed)
    \/ pc = "fast" /\ UNCHANGED <<memVars, compVars>> /\ \E out \in LMOutputs : FastRequest(out)
    \/ pc = "careful" /\ UNCHANGED <<memVars, compVars>> /\ \E out \in LMOutputs : CarefulRequest(out)
    \/ Disambiguate /\ UNCHANGED <<memVars, compVars>>
    \/ Plan /\ UNCHANGED <<memVars, compVars>>
    \/ Dispatch /\ UNCHANGED <<memVars, compVars>>
    \/ pc = "await" /\ UNCHANGED <<memVars, compVars>>
          /\ \E k \in 1..Len(tasks), o \in Outcomes : Complete(k, o)
    \/ pc = "await" /\ UNCHANGED <<memVars, compVars>>
          /\ \E insight \in BOOLEAN, items \in Listings :
                 \E outs \in [1..Len(Named(items)) -> DescribeOutcomes] :
                     Aggregate(insight, items, outs)
    \/ pc = "idle" /\ UNCHANGED <<memVars, compVars>> /\ \E calls \in DirectBatches : StartExecute(calls)
    \/ pc \in {"idle", "done"} /\ UNCHANGED <<memVars, compVars>>
          /\ \E body \in ConfirmBodies : Confirm(body)
Spec == Init /\ [][Next]_vars

\* a request to the language model returns or raises: forward is
\* synchronous code with no other wait, so its two request steps are taken
LiveSpec ==
    /\ Spec
    /\ WF_vars(pc = "fast" /\ UNCHANGED <<memVars, compVars>> /\ \E out \in LMOutputs : FastRequest(out))
    /\ WF_vars(pc = "careful" /\ UNCHANGED <<memVars, compVars>>
                 /\ \E out \in LMOutputs : CarefulRequest(out))

\* ------------------------------------------- ContextCache (context_cache.py)
TTL_SECONDS == 300

\* session ids callers pass; "" is the empty id
Sessions == {"", "s1", "s2"}

\* the resources a caller hands to update: res.get("name") is a name or None
Resources ==
    { [name |-> web, kind |-> "Pod", status |-> "Running"],
      [name |-> web, kind |-> "Pod", status |-> "Failed"],
      [name |-> <<"db">>, kind |-> "Pod", status |-> "Running"],
      [name |-> None, kind |-> "Pod", status |-> "Running"] }

\* the backend ids set_last_mcp is given; "" is the empty id
McpIds == {"", "docker"}

\* the seconds that pass between two operations
Steps == {150, 151}

\* ResourceEntity(name, kind, details, timestamp)
ResourceEntity(res, t) ==
    [name |-> res.name, kind |-> res.kind, details |-> res, timestamp |-> t]

RECURSIVE Store(_, _, _, _)
\* the loop of update over resources[i..]: a resource without a name is
\* skipped, a later resource of the same name replaces the earlier one
Store(session_memory, resources, t, i) ==
    IF i > Len(resources) THEN session_memory
    ELSE IF resources[i].name = None
    THEN Store(session_memory, resources, t, i + 1)
    ELSE Store((resources[i].name :> ResourceEntity(resources[i], t)) @@ session_memory,
               resources, t, i + 1)

\* a faulty prune that drops an entity once TTL_SECONDS have passed
ExpiredAtTtl(entity, t) == (t - entity.timestamp) >= TTL_SECONDS

\* (now - v.timestamp) > self.TTL_SECONDS
Expired(entity, t) == (t - entity.timestamp) > TTL_SECONDS

\* a faulty prune that deletes nothing
PrunedNothing(session_memory, t) == session_memory

\* session_memory after `for k in keys_to_delete: del session_memory[k]`
Pruned(session_memory, t) ==
    [k \in {n \in DOMAIN session_memory : ~Expired(session_memory[n], t)} |->
        session_memory[k]]

\* json.dumps(memory_dict): name -> entity.details; << >> stands for ""
MemoryDict(session_memory) ==
    [name \in DOMAIN session_memory |-> session_memory[name].details]

\* d without the key k
Without(d, k) == [x \in (DOMAIN d) \ {k} |-> d[x]]

RECURSIVE Writes(_, _, _, _)
\* the latest write of every name after the writes of resources[i..] at time t
Writes(w, resources, t, i) ==
    IF i > Len(resources) THEN w
    ELSE Writes(IF resources[i].name = None THEN w
                ELSE (resources[i].name :> [details |-> resources[i], at |-> t]) @@ w,
                resources, t, i + 1)

\* what every operation records of the state it found
Operation(op, session_id) ==
    /\ ops < MaxOps
    /\ ops' = ops + 1
    /\ last_op' = [op |-> op, session_id |-> session_id, at |-> now]
    /\ before' = [last_op |-> last_op, snapshot |-> snapshot, _cache |-> _cache]

\* ContextCache.update(session_id, resources)
update(session_id, resources) ==
    /\ Operation("update", session_id)
    /\ IF session_id = ""
       THEN UNCHANGED <<_cache, written>>
       ELSE /\ _cache' = (session_id :>
                             Store(IF session_id \in DOMAIN _cache
                                   THEN _cache[session_id] ELSE << >>,
                                   resources, now, 1)) @@ _cache
            /\ written' = (session_id :>
                              Writes(IF session_id \in DOMAIN written
                                     THEN written[session_id] ELSE << >>,
                                     resources, now, 1)) @@ written
    /\ UNCHANGED <<_last_mcp_map, now, snapshot, turnVars, compVars>>

\* ContextCache.get_context_block(session_id)
get_context_block(session_id) ==
    /\ Operation("get_context_block", session_id)
    /\ IF session_id = "" \/ session_id \notin DOMAIN _cache
       THEN /\ snapshot' = << >>
            /\ UNCHANGED _cache
       ELSE /\ _cache' = [_cache EXCEPT ![session_id] = Pruned(_cache[session_id], now)]
            /\ snapshot' = MemoryDict(Pruned(_cache[session_id], now))
    /\ UNCHANGED <<_last_mcp_map, now, written, turnVars, compVars>>

\* a faulty clear that empties the memory of every session
clear_every_session(session_id) ==
    /\ Operation("clear", session_id)
    /\ _cache' = << >>
    /\ _last_mcp_map' = << >>
    /\ written' = << >>
    /\ UNCHANGED <<now, snapshot, turnVars, compVars>>

\* ContextCache.clear(session_id)
clear(session_id) ==
    /\ Operation("clear", session_id)
    /\ _cache' = Without(_cache, session_id)
    /\ _last_mcp_map' = Without(_last_mcp_map, session_id)
    /\ written' = Without(written, session_id)
    /\ UNCHANGED <<now, snapshot, turnVars, compVars>>

\* ContextCache.set_last_mcp(session_id, mcp)
set_last_mcp(session_id, mcp) ==
    /\ Operation("set_last_mcp", session_id)
    /\ _last_mcp_map' = IF session_id # "" /\ mcp # ""
                        THEN (session_id :> mcp) @@ _last_mcp_map
                        ELSE _last_mcp_map
    /\ UNCHANGED <<_cache, now, snapshot, written, turnVars, compVars>>

\* ContextCache.get_last_mcp(session_id), None for an unknown session
get_last_mcp(session_id) ==
    IF session_id \in DOMAIN _last_mcp_map THEN _last_mcp_map[session_id] ELSE "None"

\* d seconds pass
Tick(d) ==
    /\ now + d <= MaxTime
    /\ now' = now + d
    /\ UNCHANGED <<_cache, _last_mcp_map, snapshot, last_op, ops, written, before,
                   turnVars, compVars>>

MemNext ==
    \/ \E session_id \in Sessions, resources \in SeqsUpTo(Resources, MaxEntities) :
           update(session_id, resources)
    \/ \E session_id \in Sessions : get_context_block(session_id)
    \/ \E session_id \in Sessions : clear(session_id)
    \/ \E session_id \in Sessions, mcp \in McpIds : set_last_mcp(session_id, mcp)
    \/ \E d \in Steps : Tick(d)

MemSpec == Init /\ [][MemNext]_vars

\* ------------------------------------------ the parsers of a model response
\* the language model answers: its response reaches both parsers
Respond(r) ==
    /\ parse_pc \in {"idle", "got"}
    /\ parse_pc' = "responded"
    /\ response' = r
    /\ validated' = NoCalls
    /\ got' = << >>
    /\ UNCHANGED <<turnVars, memVars, seqVars, regVars, lockVars, dbVars, extVars>>

\* forward hands prediction.tool_calls to _validate_and_parse
Validate ==
    /\ parse_pc = "responded"
    /\ parse_pc' = "validated"
    /\ validated' = _validate_and_parse(response)
    /\ UNCHANGED <<response, got, turnVars, memVars, seqVars, regVars, lockVars, dbVars, extVars>>

\* the sequential agent asks get_tool_calls
GetToolCalls ==
    /\ parse_pc = "validated"
    /\ parse_pc' = "got"
    /\ got' = get_tool_calls(response)
    /\ UNCHANGED <<response, validated, turnVars, memVars, seqVars, regVars, lockVars, dbVars, extVars>>

ParseNext ==
    \/ \E r \in Responses : Respond(r)
    \/ Validate
    \/ GetToolCalls

ParseSpec == Init /\ [][ParseNext]_vars

\* --------------------------- agentic_docker/agent.py: process_query
\* tool_call["name"] and tool_call["arguments"]
ToolName(tool_call) == tool_call.entries["name"].text
ToolArguments(tool_call) == tool_call.entries["arguments"]

\* what the backend answers to a post: a result that says success, a
\* result that says failure, no connection
Answers == {"success", "failure", "connect_error"}

\* a faulty branch that takes local_k8s_ names for the local cluster too
CallUrlLocalPrefix(tool_name) ==
    IF StartsWith(tool_name, remote_k8s_) THEN REMOTE_K8S_MCP_URL
    ELSE IF StartsWith(tool_name, <<"k8s", "_">>) \/ StartsWith(tool_name, local_k8s_)
    THEN K8S_MCP_URL
    ELSE MCP_URL

\* the endpoint the branch of process_query posts to: call_remote_k8s_tool,
\* call_k8s_tool or call_tool
CallUrl(tool_name) ==
    IF StartsWith(tool_name, remote_k8s_) THEN REMOTE_K8S_MCP_URL
    ELSE IF StartsWith(tool_name, <<"k8s", "_">>) THEN K8S_MCP_URL
    ELSE MCP_URL

\* the entry of a call that was declined, and format_tool_result's entry
CancelledEntry(i, tool_name) ==
    [index |-> i, tool |-> tool_name, cancelled |-> TRUE, success |-> FALSE]
format_tool_result(i, tool_name, answer) ==
    [index |-> i, tool |-> tool_name, cancelled |-> FALSE, success |-> answer = "success"]

\* a faulty loop that returns after the call it is at
NextCallReturns(entries) ==
    /\ seq_pc' = "done"
    /\ seq_output' = SeqOutput(TRUE, entries)
    /\ UNCHANGED seq_index

\* the loop goes to the next call, or process_query returns after the last
NextCall(entries) ==
    IF seq_index = Len(seq_tool_calls)
    THEN /\ seq_pc' = "done"
         /\ seq_output' = SeqOutput(TRUE, entries)
         /\ UNCHANGED seq_index
    ELSE /\ seq_pc' = "confirm"
         /\ seq_index' = seq_index + 1
         /\ UNCHANGED seq_output

\* process_query asks the model; without calls it returns the refusal
SeqAsk(r) ==
    /\ seq_pc = "idle"
    /\ seq_tool_calls' = get_tool_calls(r)
    /\ IF get_tool_calls(r) = << >>
       THEN /\ seq_pc' = "done"
            /\ seq_output' = SeqOutput(FALSE, << >>)
            /\ UNCHANGED seq_index
       ELSE /\ seq_pc' = "confirm"
            /\ seq_index' = 1
            /\ UNCHANGED seq_output
    /\ UNCHANGED <<final_results, posted, seq_log, turnVars, memVars, parseVars, regVars, lockVars, dbVars, extVars>>

\* confirm_action_auto answers for the call the loop is at; a declined call
\* gets its entry and the loop continues
SeqConfirm(ok) ==
    /\ seq_pc = "confirm"
    /\ seq_log' = Append(seq_log, [kind |-> "confirm", index |-> seq_index, ok |-> ok])
    /\ IF ok
       THEN /\ seq_pc' = "execute"
            /\ UNCHANGED <<seq_index, final_results, seq_output>>
       ELSE LET entries == Append(final_results,
                              CancelledEntry(seq_index,
                                             ToolName(seq_tool_calls[seq_index])))
            IN /\ final_results' = entries
               /\ NextCall(entries)
    /\ UNCHANGED <<seq_tool_calls, posted, turnVars, memVars, parseVars, regVars, lockVars, dbVars, extVars>>

\* the confirmed call is posted to its endpoint and its result is formatted
SeqExecute(answer) ==
    /\ seq_pc = "execute"
    /\ LET tool_call == seq_tool_calls[seq_index]
           entries == Append(final_results,
                             format_tool_result(seq_index, ToolName(tool_call), answer))
       IN /\ posted' = Append(posted, [url |-> CallUrl(ToolName(tool_call)),
                                       method |-> ToolName(tool_call),
                                       params |-> ToolArguments(tool_call),
                                       index |-> seq_index])
          /\ seq_log' = Append(seq_log, [kind |-> "dispatch", index |-> seq_index,
                                         ok |-> TRUE])
          /\ final_results' = entries
          /\ NextCall(entries)
    /\ UNCHANGED <<seq_tool_calls, turnVars, memVars, parseVars, regVars, lockVars, dbVars, extVars>>

SeqNext ==
    \/ \E r \in Responses : SeqAsk(r)
    \/ \E ok \in BOOLEAN : SeqConfirm(ok)
    \/ \E answer \in Answers : SeqExecute(answer)

SeqSpec == Init /\ [][SeqNext]_vars

\* ---------------------------------- agentic_docker/tools/registry.py
MaxRegs == 3

\* the tool classes handed to register, each with the name its instances
\* carry: two of them carry the same name
ToolClasses ==
    { [cls |-> "MockTool1",  name |-> "mock_tool_1"],
      [cls |-> "MockTool1b", name |-> "mock_tool_1"],
      [cls |-> "MockTool2",  name |-> "mock_tool_2"] }

\* the names looked up: those of the classes and one no class carries
ToolNames == {c.name : c \in ToolClasses} \cup {"nonexistent"}

\* tool_cls(): a new object, told from every other by the count at its making
Instance(tool_cls, n) == [cls |-> tool_cls.cls, name |-> tool_cls.name, id |-> n]
NoTool == [cls |-> "None", name |-> "", id |-> 0]

\* name in d, for the items d of a dict
HasItem(d, name) == \E i \in DOMAIN d : d[i].name = name

\* a faulty assignment that keeps the instance a name already has
SetItemOnce(d, name, tool) ==
    IF HasItem(d, name) THEN d ELSE Append(d, [name |-> name, tool |-> tool])

\* d[name] = tool: a key the dict has keeps its place, a new key goes last
SetItem(d, name, tool) ==
    IF HasItem(d, name)
    THEN [i \in DOMAIN d |-> IF d[i].name = name THEN [name |-> name, tool |-> tool]
                             ELSE d[i]]
    ELSE Append(d, [name |-> name, tool |-> tool])

\* ToolRegistry.register(tool_cls)
register(tool_cls) ==
    /\ Len(registrations) < MaxRegs
    /\ made' = made + 1
    /\ _tools' = SetItem(_tools, tool_cls.name, Instance(tool_cls, made + 1))
    /\ registrations' = Append(registrations, Instance(tool_cls, made + 1))
    /\ reg_answer' = NoAnswer
    /\ UNCHANGED <<turnVars, memVars, parseVars, seqVars, lockVars, dbVars, extVars>>

\* list(self._tools.values())
Values(d) == [i \in DOMAIN d |-> d[i].tool]

\* ToolRegistry.get_tools()
get_tools ==
    /\ reg_answer' = [op |-> "get_tools", name |-> "", tools |-> Values(_tools)]
    /\ UNCHANGED <<_tools, made, registrations, turnVars, memVars, parseVars, seqVars, lockVars, dbVars, extVars>>

\* self._tools.get(name)
DictGet(d, name) ==
    IF HasItem(d, name) THEN (CHOOSE i \in DOMAIN d : d[i].name = name) ELSE 0

\* ToolRegistry.get_tool(name)
get_tool(name) ==
    /\ reg_answer' = [op |-> "get_tool", name |-> name,
                      tools |-> IF HasItem(_tools, name)
                                THEN <<_tools[DictGet(_tools, name)].tool>>
                                ELSE <<NoTool>>]
    /\ UNCHANGED <<_tools, made, registrations, turnVars, memVars, parseVars, seqVars, lockVars, dbVars, extVars>>

RegNext ==
    \/ \E tool_cls \in ToolClasses : register(tool_cls)
    \/ get_tools
    \/ \E name \in ToolNames : get_tool(name)

RegSpec == Init /\ [][RegNext]_vars

\* ------------------------------------------- devops_agent/launcher.py
\* the process of supervisor l exists: start_all was entered and has neither
\* exited nor been killed
Running(l) == lpc[l] \in {"checked", "spawned", "monitoring"}

\* the supervisor has launched its four servers and has not stopped them
Supervising(l) == lpc[l] \in {"spawned", "monitoring"}

\* _is_pid_alive(pid): os.kill(pid, 0) succeeds
_is_pid_alive(pid) == pid \in Launchers /\ Running(pid)

\* an earlier run left a lockfile that is no JSON
Leftover ==
    /\ \A l \in Launchers : lpc[l] = "idle"
    /\ lockfile = NoLockFile
    /\ lockfile' = CorruptLockFile
    /\ UNCHANGED <<lpc, found, turnVars, memVars, parseVars, seqVars, regVars, dbVars, extVars>>

\* start_all of supervisor l calls check_lock: it exits when the lockfile
\* names a live PID, removes a stale or corrupt lockfile, and returns
check_lock(l) ==
    /\ lpc[l] = "idle"
    /\ CASE lockfile.state = "absent" ->
              /\ found' = [found EXCEPT ![l] = "absent"]
              /\ lpc' = [lpc EXCEPT ![l] = "checked"]
              /\ UNCHANGED lockfile
         [] lockfile.state = "corrupt" ->
              /\ found' = [found EXCEPT ![l] = "corrupt"]
              /\ lpc' = [lpc EXCEPT ![l] = "checked"]
              /\ lockfile' = NoLockFile
         [] lockfile.state = "valid" /\ _is_pid_alive(lockfile.main_pid) ->
              /\ found' = [found EXCEPT ![l] = "live"]
              /\ lpc' = [lpc EXCEPT ![l] = "refused"]
              /\ UNCHANGED lockfile
         [] lockfile.state = "valid" /\ ~_is_pid_alive(lockfile.main_pid) ->
              /\ found' = [found EXCEPT ![l] = "stale"]
              /\ lpc' = [lpc EXCEPT ![l] = "checked"]
              /\ lockfile' = NoLockFile
    /\ UNCHANGED <<turnVars, memVars, parseVars, seqVars, regVars, dbVars, extVars>>

\* the four calls of spawn in start_all
spawn(l) ==
    /\ lpc[l] = "checked"
    /\ lpc' = [lpc EXCEPT ![l] = "spawned"]
    /\ UNCHANGED <<lockfile, found, turnVars, memVars, parseVars, seqVars, regVars, dbVars, extVars>>

\* write_lock, after which start_all stays in its monitor loop
write_lock(l) ==
    /\ lpc[l] = "spawned"
    /\ lpc' = [lpc EXCEPT ![l] = "monitoring"]
    /\ lockfile' = LockFile(l)
    /\ UNCHANGED <<found, turnVars, memVars, parseVars, seqVars, regVars, dbVars, extVars>>

\* handle_exit on SIGINT or SIGTERM: the lockfile is removed, the servers
\* are terminated, the process exits
handle_exit(l) ==
    /\ Running(l)
    /\ lpc' = [lpc EXCEPT ![l] = "exited"]
    /\ lockfile' = NoLockFile
    /\ UNCHANGED <<found, turnVars, memVars, parseVars, seqVars, regVars, dbVars, extVars>>

\* the supervisor is killed: no handler runs and its lockfile stays
Killed(l) ==
    /\ Running(l)
    /\ lpc' = [lpc EXCEPT ![l] = "killed"]
    /\ UNCHANGED <<lockfile, found, turnVars, memVars, parseVars, seqVars, regVars, dbVars, extVars>>

LockNext ==
    \/ Leftover
    \/ \E l \in Launchers : check_lock(l)
    \/ \E l \in Launchers : spawn(l)
    \/ \E l \in Launchers : write_lock(l)
    \/ \E l \in Launchers : handle_exit(l)
    \/ \E l \in Launchers : Killed(l)

LockSpec == Init /\ [][LockNext]_vars

\* ------------------------------------- devops_agent/database/db.py
MaxMsgs == 2

\* the session ids and the message contents callers pass
SessionIds == {"s1", "s2"}
Contents   == {"hello", "bye"}

\* the messages of a session, in the order of their ids
MessagesOf(rows, session_id) ==
    SelectSeq(rows, LAMBDA m : m.session_id = session_id)

\* DELETE FROM sessions WHERE id = ?: with foreign keys enforced the
\* messages of the session go with it (ON DELETE CASCADE), without they stay
DeleteCascade(rows, session_id, enforced) ==
    IF enforced THEN SelectSeq(rows, LAMBDA m : m.session_id # session_id) ELSE rows

otherVarsDb == <<turnVars, memVars, parseVars, seqVars, regVars, lockVars, extVars>>

\* SessionRepository.__init__: the tables are created; the connections the
\* repository opens set no pragma, so the library's default decides whether
\* foreign keys are enforced
_init_db(enforced) ==
    /\ foreign_keys = "closed"
    /\ foreign_keys' = IF enforced THEN "on" ELSE "off"
    /\ UNCHANGED <<sessions, messages, db_answer, db_before, fresh, otherVarsDb>>

\* create_session(session_id, title): an id the table has raises
\* IntegrityError and nothing is written
create_session(session_id) ==
    /\ foreign_keys # "closed"
    /\ db_before' = [sessions |-> sessions, messages |-> messages]
    /\ IF session_id \in sessions
       THEN /\ db_answer' = [op |-> "create_session", session_id |-> session_id,
                             ok |-> FALSE, messages |-> << >>]
            /\ UNCHANGED <<sessions, fresh>>
       ELSE /\ sessions' = sessions \cup {session_id}
            /\ db_answer' = [op |-> "create_session", session_id |-> session_id,
                             ok |-> TRUE, messages |-> << >>]
            /\ fresh' = IF db_answer.op = "delete_session" /\ db_answer.ok
                           /\ db_answer.session_id = session_id
                        THEN fresh \cup {session_id} ELSE fresh \ {session_id}
    /\ UNCHANGED <<foreign_keys, messages, otherVarsDb>>

\* add_message(session_id, role, content): with foreign keys enforced the
\* insert for an unknown session fails and the error is printed
add_message(session_id, content) ==
    /\ foreign_keys # "closed"
    /\ Len(messages) < MaxMsgs
    /\ db_before' = [sessions |-> sessions, messages |-> messages]
    /\ IF foreign_keys = "on" /\ session_id \notin sessions
       THEN /\ db_answer' = [op |-> "add_message", session_id |-> session_id,
                             ok |-> FALSE, messages |-> << >>]
            /\ UNCHANGED messages
       ELSE /\ messages' = Append(messages, [session_id |-> session_id,
                                              content |-> content])
            /\ db_answer' = [op |-> "add_message", session_id |-> session_id,
                             ok |-> TRUE, messages |-> << >>]
    /\ fresh' = fresh \ {session_id}
    /\ UNCHANGED <<foreign_keys, sessions, otherVarsDb>>

\* get_session(session_id): None, or the session with its messages
get_session(session_id) ==
    /\ foreign_keys # "closed"
    /\ db_before' = [sessions |-> sessions, messages |-> messages]
    /\ db_answer' = [op |-> "get_session", session_id |-> session_id,
                     ok |-> session_id \in sessions,
                     messages |-> IF session_id \in sessions
                                  THEN MessagesOf(messages, session_id) ELSE << >>]
    /\ UNCHANGED <<foreign_keys, sessions, messages, fresh, otherVarsDb>>

\* delete_session(session_id): the row of the session is deleted, and
\* whether a row was deleted is returned
delete_session(session_id) ==
    /\ foreign_keys # "closed"
    /\ db_before' = [sessions |-> sessions, messages |-> messages]
    /\ sessions' = sessions \ {session_id}
    /\ messages' = IF session_id \in sessions
                   THEN DeleteCascade(messages, session_id, foreign_keys = "on")
                   ELSE messages
    /\ db_answer' = [op |-> "delete_session", session_id |-> session_id,
                     ok |-> session_id \in sessions, messages |-> << >>]
    /\ fresh' = fresh \ {session_id}
    /\ UNCHANGED <<foreign_keys, otherVarsDb>>

DbNext ==
    \/ \E enforced \in BOOLEAN : _init_db(enforced)
    \/ \E session_id \in SessionIds : create_session(session_id)
    \/ \E session_id \in SessionIds, content \in Contents : add_message(session_id, content)
    \/ \E session_id \in SessionIds : get_session(session_id)
    \/ \E session_id \in SessionIds : delete_session(session_id)

DbSpec == Init /\ [][DbNext]_vars

\* =============================================================== claims

\* the requests the scheduler posted for the calls of the turn's batch; the
\* fetches made for the prompt before the batch was resolved are not among them
BatchRequests == {r \in DOMAIN dispatched : dispatched[r].origin = "batch"}

\* the first call of calls the policy flags
FirstDangerous(calls) ==
    CHOOSE i \in DOMAIN calls :
        /\ is_tool_dangerous(calls[i].name)
        /\ \A j \in DOMAIN calls : is_tool_dangerous(calls[j].name) => i <= j

\* the gate of the turn has run
GateHasRun == mode \in {"query", "direct"} /\ pc \in {"gather", "await", "done"}

\* C1: once the gate has run over a batch with a dangerous call in it, in
\* process_query_async and in execute_tool_calls_async, no call of the batch
\* has been posted to a backend and the turn has returned exactly one
\* confirmation request, for the first dangerous call and its arguments.
C1_DangerousBatchHalts ==
    (GateHasRun /\ \E i \in DOMAIN tool_calls : is_tool_dangerous(tool_calls[i].name))
    => /\ BatchRequests = {}
       /\ pc = "done"
       /\ Len(result.confirmation_request) = 1
       /\ result.confirmation_request[1] =
              [tool      |-> tool_calls[FirstDangerous(tool_calls)].name,
               arguments |-> tool_calls[FirstDangerous(tool_calls)].arguments]

\* a batch with a safe call before the dangerous one was halted
C1_Witness ==
    /\ pc = "done" /\ mode = "query"
    /\ Len(tool_calls) = 2
    /\ ~is_tool_dangerous(tool_calls[1].name)
    /\ is_tool_dangerous(tool_calls[2].name)
    /\ Len(result.confirmation_request) = 1
    /\ BatchRequests = {}

\* the requests made on an approval of the call
ConfirmRequestsFor(tool, arguments) ==
    {r \in DOMAIN dispatched :
        /\ dispatched[r].origin = "confirm"
        /\ dispatched[r].name = tool
        /\ dispatched[r].arguments = arguments}

\* the approvals of the call
ApprovalsOf(tool, arguments) ==
    {a \in DOMAIN approvals :
        approvals[a].tool = tool /\ approvals[a].arguments = arguments}

\* C2: every request for a dangerous call that reaches a backend is made on
\* an approval, after the turn returned a confirmation request for that very
\* call (same name, same arguments); and every approval of the call the turn
\* asked about has made exactly one request, for that call.
C2_ApprovalDispatchesOnce ==
    /\ \A r \in DOMAIN dispatched :
           is_tool_dangerous(dispatched[r].name)
           => /\ dispatched[r].origin = "confirm"
              /\ result.confirmation_request =
                     <<[tool |-> dispatched[r].name,
                        arguments |-> dispatched[r].arguments]>>
    /\ \A c \in DOMAIN result.confirmation_request :
           LET req == result.confirmation_request[c] IN
           Cardinality(ConfirmRequestsFor(req.tool, req.arguments))
               = Cardinality(ApprovalsOf(req.tool, req.arguments))

\* the verbs of a capability name that change state
MutatingVerbs == {"stop", "start", "restart", "run", "promote", "create", "delete", "remove"}

\* the capability changes state: its name carries a mutating verb
StateMutating(tool_name) == \E i \in DOMAIN tool_name : tool_name[i] \in MutatingVerbs

\* C3: the policy flags a resolved capability exactly when it changes state.
C3_PolicyFlagsMutations ==
    \A i \in DOMAIN tool_calls :
        is_tool_dangerous(tool_calls[i].name) <=> StateMutating(tool_calls[i].name)

\* C4: every call process_query_async posts to a backend names a capability
\* of the tool schema and carries every argument the schema requires.
C4_DispatchedCallsAreValid ==
    mode = "query"
    => \A r \in BatchRequests :
           CallError([name |-> dispatched[r].name, arguments |-> dispatched[r].arguments],
                     all_tools_schema) = ""

\* the turn of process_query_async ran its batch and returned the answer
Executed == pc = "done" /\ mode = "query" /\ result.kind = "executed"

\* the request r was made for call i of the batch: the scheduler posted it
\* for that call, or it is the prefetch the scheduler took for it
MadeFor(r, i) ==
    \/ dispatched[r].origin = "batch" /\ dispatched[r].index = i
    \/ /\ dispatched[r].origin = "speculative"
       /\ \A b \in BatchRequests : dispatched[b].index # i

\* C5: when a turn has run a batch of N calls, it returns N per-call
\* results, no call was posted twice, and the result at position i is what
\* the backend call made for input call i returned, whatever the order in
\* which the calls finished and whether or not some of them failed.  For a
\* batch describe call whose listing succeeded with items, the result at
\* position i is the aggregate made of the listing that call i returned.
C5_ResultsInCallOrder ==
    Executed
    => /\ Len(result.output.lines) = Len(result.tool_calls)
       /\ \A b1, b2 \in BatchRequests :
              dispatched[b1].index = dispatched[b2].index => b1 = b2
       /\ \A i \in 1..Len(result.tool_calls) :
              \E r \in DOMAIN dispatched :
                  /\ MadeFor(r, i)
                  /\ dispatched[r].name = result.tool_calls[i].name
                  /\ dispatched[r].arguments = result.tool_calls[i].arguments
                  /\ dispatched[r].outcome # "pending"
                  /\ LET res == call_tool_async(dispatched[r].name,
                                                dispatched[r].arguments,
                                                dispatched[r].outcome)
                     IN IF "_batch" \in DOMAIN result.output.lines[i].result
                        THEN /\ IsBatchDescribed(result.tool_calls[i], res)
                             /\ result.output.lines[i].tool = dispatched[r].name
                             /\ result.output.lines[i].result.success
                        ELSE result.output.lines[i] = Line(dispatched[r].name, res)

\* two calls finished in the reverse of their order, one of them failed
C5_Witness ==
    /\ Executed
    /\ Len(result.output.lines) = 2
    /\ completion = <<2, 1>>
    /\ result.output.lines[1].result.success # result.output.lines[2].result.success

\* C6: a failed exchange (connection refused, timeout, HTTP error status,
\* JSON-RPC error, malformed response) comes out of call_tool_async as a
\* value with success false and an error text, never as an exception; and a
\* turn that posted a batch returns only when every call of the batch has
\* finished, with one result per call that says whether that call failed.
C6_FailuresAreValues ==
    /\ \A k \in DOMAIN returned :
           /\ ~returned[k].raised
           /\ dispatched[RequestOf(k)].outcome \in FailureOutcomes
              => ~returned[k].success /\ returned[k].error # << >>
    /\ (pc = "done" /\ mode = "query" /\ BatchRequests # {})
       => /\ result.kind = "executed"
          /\ Len(result.output.lines) = Len(tool_calls)
          /\ \A r \in BatchRequests :
                 /\ dispatched[r].outcome # "pending"
                 /\ result.output.lines[dispatched[r].index].result.success
                        <=> dispatched[r].outcome = "result_ok"

\* a batch in which one exchange ended in an HTTP error status and another
\* succeeded has returned both results
C6_Witness ==
    /\ Executed
    /\ \E r1, r2 \in BatchRequests :
           /\ dispatched[r1].outcome = "http_status"
           /\ dispatched[r2].outcome = "result_ok"
           /\ ~result.output.lines[dispatched[r1].index].result.success
           /\ result.output.lines[dispatched[r2].index].result.success

\* the turn is past Stage A and the router matched its query
Routed == mode = "query" /\ pc \notin {"idle", "route"} /\ instant_tools # NoCalls

\* C7: for a query a Stage A pattern matches, resolution makes no language-
\* model request, does not consult the response cache, shortlists no tools
\* and fetches nothing for a prompt, and the calls that enter disambiguation
\* are the routed ones.
C7_RouterMatchBypasses ==
    Routed
    => /\ \A n \in DOMAIN lm_requests : lm_requests[n] \notin {"fast", "careful"}
       /\ cache_lookups = 0
       /\ retrievals = 0
       /\ \A r \in DOMAIN dispatched :
              dispatched[r].origin \notin {"context", "speculative"}
       /\ pc = "disambiguate" => tool_calls = instant_tools
       /\ pc \in {"plan", "gather", "await", "done"} => pre_calls = instant_tools

\* a routed query was answered
C7_Witness ==
    /\ Routed /\ Executed
    /\ pre_calls = route(query)
    /\ cache_lookups = 0

\* a word of the query is the token, in any letter case
HasToken(q, token) == \E w \in DOMAIN q : Lower(q[w]) = token

\* the capability exists in a local and in a remote variant
Ambiguous(tool_name) == tool_name \in DOMAIN AMBIGUOUS_TOOL_PAIRS

\* the disambiguation loop has run over the calls of the turn
Disambiguated == mode = "query" /\ pc = "plan"

\* C8: a call that enters disambiguation naming a capability with a local
\* and a remote variant leaves it naming the remote variant when "remote"
\* is a word of the query, whatever the history holds and whichever variant
\* the resolver chose.
C8_ExplicitRemoteWins ==
    Disambiguated
    => \A i \in DOMAIN pre_calls :
           (Ambiguous(pre_calls[i].name) /\ HasToken(query, <<"remote">>))
           => /\ StartsWith(tool_calls[i].name, remote_k8s_)
              /\ tool_calls[i].name \in
                     {pre_calls[i].name, AMBIGUOUS_TOOL_PAIRS[pre_calls[i].name]}

\* the resolver chose the local variant, the session used the local cluster
\* only, and the word REMOTE of the query turned the call to the remote one
C8_Witness ==
    /\ Disambiguated
    /\ HasToken(query, <<"remote">>)
    /\ strong_local_context(history)
    /\ \E i \in DOMAIN pre_calls :
           /\ pre_calls[i].name = local_k8s_list_pods
           /\ tool_calls[i].name = remote_k8s_list_pods

\* the query mentions neither group: its text holds neither word, in any
\* letter case
NamesNoGroup(q) ==
    /\ ~Contains(Lower(QueryText(q)), <<"remote">>)
    /\ ~Contains(Lower(QueryText(q)), <<"local">>)

\* a prior call of the session, as the history records it, used the group
CalledLocal(h) ==
    \E i \in DOMAIN h : h[i].role = "assistant" /\ Contains(h[i].content, local_k8s_)
CalledRemote(h) ==
    \E i \in DOMAIN h : h[i].role = "assistant" /\ Contains(h[i].content, remote_k8s_)

\* the prior calls of the session are local-group calls only
OnlyLocalPriorCalls(h) == CalledLocal(h) /\ ~CalledRemote(h)

\* a user message of the session mentions the remote cluster
UserMentionsRemote(h) ==
    \E i \in DOMAIN h : h[i].role = "user" /\ Contains(Lower(h[i].content), <<"remote">>)

C11_DisambiguationFrame ==
    Disambiguated
    => /\ Len(tool_calls) = Len(pre_calls)
       /\ \A i \in DOMAIN pre_calls :
              /\ ~Ambiguous(pre_calls[i].name) => tool_calls[i] = pre_calls[i]
              /\ DOMAIN tool_calls[i] = DOMAIN pre_calls[i]
              /\ \A k \in DOMAIN pre_calls[i] \ {"name"} :
                     tool_calls[i][k] = pre_calls[i][k]

\* a batch describe call was renamed and kept its arguments and its flags
C11_Witness ==
    /\ Disambiguated
    /\ \E i \in DOMAIN pre_calls :
           /\ "_batch_describe" \in DOMAIN pre_calls[i]
           /\ tool_calls[i].name # pre_calls[i].name
           /\ tool_calls[i]._batch_prefix = pre_calls[i]._batch_prefix
           /\ tool_calls[i].arguments = pre_calls[i].arguments

\* the last operation was get_context_block(s) of a non-empty session id
ReadOf(op, s) == op.op = "get_context_block" /\ op.session_id = s /\ s # ""

\* the names written to session s since it was last cleared
WrittenNames(s) == IF s \in DOMAIN written THEN DOMAIN written[s] ELSE {}

C13_ReadAfterTtlPrunes ==
    \A s \in Sessions :
        ReadOf(last_op, s)
        => /\ \A name \in DOMAIN snapshot :
                  /\ name \in WrittenNames(s)
                  /\ last_op.at - written[s][name].at <= TTL_SECONDS
           /\ s \in DOMAIN _cache
              => \A name \in DOMAIN _cache[s] :
                     last_op.at - _cache[s][name].timestamp <= TTL_SECONDS
           /\ (ReadOf(before.last_op, s)
               /\ (before.snapshot = << >> \/ before.last_op.at = last_op.at))
              => snapshot = before.snapshot /\ _cache = before._cache

\* an entity was written, and two reads after its TTL both returned the
\* empty block
C13_Witness ==
    /\ ReadOf(last_op, "s1")
    /\ ReadOf(before.last_op, "s1")
    /\ web \in WrittenNames("s1")
    /\ before.last_op.at - written["s1"][web].at > TTL_SECONDS
    /\ before.snapshot = << >>
    /\ snapshot = << >>
    /\ _cache = before._cache

\* the calls of the turn the router marked as batch describes and whose
\* listing succeeded
DescribedCalls ==
    IF pc = "done" /\ mode = "query" /\ result.kind = "executed"
    THEN {i \in DOMAIN result.tool_calls :
              /\ "_batch_describe" \in DOMAIN result.tool_calls[i]
              /\ result.output.lines[i].result.success}
    ELSE {}

\* C14: when the listing of a batch describe call succeeds and returns K
\* resources, named or not, the result of the call is one batch result with
\* K entries and count K; entry j is about the j-th listed resource, and it
\* is marked as an error exactly when the describe call made for that
\* resource failed, whatever became of the other describe calls.
C14_BatchHasEntryPerResource ==
    \A i \in DescribedCalls :
        LET res == result.output.lines[i].result
        IN /\ "_batch" \in DOMAIN res
           /\ res.count = Len(listed)
           /\ Len(res.resources) = Len(listed)
           /\ \A j \in DOMAIN res.resources :
                  /\ res.resources[j].status = listed[j].phase
                  /\ listed[j].name # None
                     => /\ res.resources[j].name = listed[j].name
                        /\ res.resources[j].about = listed[j].name
                        /\ \E r \in DOMAIN dispatched :
                               /\ dispatched[r].origin = "describe"
                               /\ dispatched[r].index = i
                               /\ \E key \in DOMAIN dispatched[r].arguments :
                                      dispatched[r].arguments[key] = listed[j].name
                               /\ res.resources[j].error
                                      <=> dispatched[r].outcome # "result_ok"

\* what does hold: the batch result exists when the listing has items, it
\* has one entry for each describe call made, and entry j carries the
\* outcome of the j-th describe call
C14_BatchHasEntryPerDescribe ==
    \A i \in DescribedCalls :
        LET res == result.output.lines[i].result
            ds  == SelectSeq(dispatched,
                             LAMBDA d : d.origin = "describe" /\ d.index = i)
        IN /\ "_batch" \in DOMAIN res <=> listed # << >>
           /\ "_batch" \in DOMAIN res
              => /\ res.count = Len(ds)
                 /\ Len(res.resources) = Len(ds)
                 /\ Len(ds) = Len(Named(listed))
                 /\ \A j \in DOMAIN ds :
                        /\ \E key \in DOMAIN ds[j].arguments :
                               ds[j].arguments[key] = res.resources[j].about
                        /\ res.resources[j].error <=> ds[j].outcome # "result_ok"

\* a listing of two named resources, the describe of the first failed and
\* the describe of the second succeeded
C14_Witness ==
    \E i \in DescribedCalls :
        LET res == result.output.lines[i].result
        IN /\ "_batch" \in DOMAIN res
           /\ Len(listed) = 2
           /\ res.count = 2
           /\ res.resources[1].error
           /\ ~res.resources[2].error

\* forward has returned and none of its responses validated: the fast one
\* and every careful one were unparsable, named an unknown capability or
\* lacked a required argument
Exhausted == verdict = "invalid" /\ pc \notin {"fast", "careful"}

\* C15: when the fast response and every careful response of a turn fail
\* validation, the turn posts no call to a backend and returns the
\* could-not-understand message with an empty list of calls.
C15_ExhaustedIsNotUnderstood ==
    Exhausted
    => /\ pc = "done"
       /\ result.kind = "not_understood"
       /\ result.tool_calls = << >>
       /\ BatchRequests = {}

\* what does hold: the turn returns the could-not-understand message
\* exactly when nothing can be read out of the last response
C15_ExhaustedUnparsable ==
    (Exhausted /\ pc = "done" /\ result.kind = "not_understood")
    => result.tool_calls = << >> /\ BatchRequests = {}

\* four responses that did not validate, and the turn has answered that it
\* could not understand
C15_Witness ==
    /\ Exhausted
    /\ Len(lm_requests) = max_retries + 2
    /\ result.kind = "not_understood"

\* the requests of kind k the turn has made
Requests(k) == {n \in DOMAIN lm_requests : lm_requests[n] = k}

\* forward is running
InStageD == pc \in {"fast", "careful"}

\* the requests of forward so far: one fast request, then careful ones
\* only, at most max_retries + 1 of them, none after a response validated
BoundedRequests ==
    /\ Cardinality(Requests("fast")) <= 1
    /\ Cardinality(Requests("careful")) <= max_retries + 1
    /\ \A n \in Requests("careful") : n > 1 /\ lm_requests[1] = "fast"
    /\ \A n \in Requests("careful") : \A m \in 1..(n - 1) : lm_requests[m] # "insight"
    /\ pc = "fast" => lm_requests = << >> /\ verdict = "none"
    /\ pc = "careful"
       => /\ verdict \in {"invalid", "mixed"}
          /\ Cardinality(Requests("careful")) = attempt
          /\ attempt <= max_retries
    /\ verdict = "valid" => ~InStageD

\* C16: forward makes one fast request and then, only if that response did
\* not validate, careful requests one at a time, at most max_retries + 1 of
\* them and none after a response that validated; and it always returns.
C16_StageDTerminates ==
    /\ []BoundedRequests
    /\ InStageD ~> ~InStageD

\* forward returned after the fast request and max_retries + 1 careful ones
C16_Witness ==
    /\ ~InStageD
    /\ Cardinality(Requests("fast")) = 1
    /\ Cardinality(Requests("careful")) = max_retries + 1

\* the stages that have worked on the resolution of the turn
StageARan == instant_tools # NoCalls
CacheHit  == cached_result # NoResult
StageDRan == retrievals > 0 \/ Requests("fast") # {} \/ Requests("careful") # {}

\* C17: the response cache is consulted only when no Stage A pattern
\* matched, and once; a cache hit makes the turn return the stored output
\* and calls with no request to the language model and no call posted;
\* Stage D runs only when Stage A and the cache both missed; so once the
\* resolution is over exactly one of the three has supplied the result.
C17_OneStageSupplies ==
    mode = "query"
    => /\ cache_lookups <= 1
       /\ cache_lookups = 1 => ~StageARan
       /\ CacheHit
          => /\ pc = "done"
             /\ result = cached_result
             /\ \E e \in sem_cache :
                    /\ e.query = query
                    /\ result.output = e.output
                    /\ result.tool_calls = e.tool_calls
             /\ lm_requests = << >>
             /\ dispatched = << >>
       /\ StageDRan => ~StageARan /\ cache_lookups = 1 /\ ~CacheHit
       /\ pc \in {"disambiguate", "plan", "gather", "await", "done"}
          => \/ StageARan /\ ~CacheHit /\ ~StageDRan
             \/ ~StageARan /\ CacheHit /\ ~StageDRan
             \/ ~StageARan /\ ~CacheHit /\ StageDRan

\* a turn the cache answered
C17_Witness ==
    /\ mode = "query" /\ pc = "done"
    /\ CacheHit
    /\ result.kind = "cached"
    /\ result.tool_calls # << >>

\* the entries the turn has added to the response cache
Added == sem_cache \ InitialCache

\* C18: an entry is added to the response cache only by a turn that the
\* language model resolved, that ran to its end, and in which every call
\* returned success: never by a turn in which a call failed, that the gate
\* halted, whose resolution failed, or that Stage A or the cache answered.
C18_CachedOnlyAfterSuccess ==
    \A e \in Added :
        /\ pc = "done" /\ result.kind = "executed"
        /\ e.query = query /\ e.tool_calls = result.tool_calls
        /\ ~StageARan /\ ~CacheHit
        /\ \A i \in DOMAIN result.output.lines : result.output.lines[i].result.success

\* what does hold: the entry is added by a turn the language model
\* resolved and that ran to its end, whether or not its calls succeeded
C18_CachedOnlyAfterExecution ==
    \A e \in Added :
        /\ pc = "done" /\ result.kind = "executed"
        /\ e.query = query /\ e.tool_calls = result.tool_calls
        /\ e.output = result.output
        /\ ~StageARan /\ ~CacheHit

\* an entry was added for a turn whose calls all succeeded
C18_Witness ==
    \E e \in Added :
        /\ e.query = query
        /\ \A i \in DOMAIN e.output.lines : e.output.lines[i].result.success

\* the speculative prefetches of the turn
SpeculativeRequests == {r \in DOMAIN dispatched : dispatched[r].origin = "speculative"}

\* request r fetches the call: same capability, same arguments
Fetches(r, call) ==
    dispatched[r].name = call.name /\ dispatched[r].arguments = call.arguments

\* C19: no request the scheduler posts for the calls of a turn repeats the
\* speculative prefetch: a resolved call equal in name and arguments to the
\* prefetch in flight is given the prefetch task, no request of its own,
\* and its result is the result of that task.
C19_PrefetchIsReused ==
    mode = "query"
    => /\ Cardinality(SpeculativeRequests) <= 1
       /\ \A s \in SpeculativeRequests, b \in BatchRequests :
              ~Fetches(s, [name |-> dispatched[b].name,
                           arguments |-> dispatched[b].arguments])
       /\ Executed
          => \A i \in DOMAIN result.tool_calls, s \in SpeculativeRequests :
                 Fetches(s, result.tool_calls[i])
                 => /\ dispatched[s].outcome # "pending"
                    /\ result.output.lines[i] =
                           Line(dispatched[s].name,
                                call_tool_async(dispatched[s].name,
                                                dispatched[s].arguments,
                                                dispatched[s].outcome))

\* a turn whose resolved call was the one being prefetched has run, next
\* to a call the scheduler posted
C19_Witness ==
    /\ Executed
    /\ BatchRequests # {}
    /\ \E i \in DOMAIN result.tool_calls, s \in SpeculativeRequests :
           Fetches(s, result.tool_calls[i])

\* the live-state fetches of the turn that gave the prompt nothing: they
\* failed, returned what could not be read, or were cancelled at the timeout
FailedFetches ==
    {r \in DOMAIN dispatched :
        dispatched[r].origin = "context" /\ dispatched[r].outcome # "result_ok"}

\* C20: when the live-state fetch times out, fails or raises, the turn goes
\* on to the language model all the same and returns no error for it; a
\* call's result says success false only when the request posted for that
\* very call failed.
C20_ContextIsAdvisory ==
    mode = "query"
    => /\ FailedFetches # {}
          => /\ pc = "fast" \/ Requests("fast") # {}
             /\ result.kind \notin {"raised", "brain_freeze"} \/ verdict = "mixed"
       /\ Executed
          => \A i \in DOMAIN result.output.lines :
                 ~result.output.lines[i].result.success
                 => \E r \in DOMAIN dispatched :
                        /\ MadeFor(r, i)
                        /\ dispatched[r].outcome \in FailureOutcomes

\* the fetches were cancelled at the timeout and the turn has run its
\* calls with success
C20_Witness ==
    /\ Executed
    /\ \E r \in FailedFetches : dispatched[r].outcome = "cancelled"
    /\ result.output.lines # << >>
    /\ \A i \in DOMAIN result.output.lines : result.output.lines[i].result.success

\* the turn of the query "list remote pods" with an empty history
ListRemotePods ==
    /\ mode = "query"
    /\ query = <<Wd("list"), Wd("remote"), pods>>
    /\ history = << >>

\* the text of result line i of a turn, as the formatter renders it
Rendered(i) ==
    format(result.output.lines[i].tool, ListPodsResult(result.tool_calls[i].arguments, listed))

\* the turn made no request to the language model, and once it has run it
\* has posted its one call once
RoutedOnce ==
    /\ lm_requests = << >>
    /\ Cardinality(BatchRequests) <= 1
    /\ Executed => Cardinality(BatchRequests) = 1 /\ Len(result.output.lines) = 1

FailingPodsRouted ==
    mode = "query" /\ query = DescribeAllFailing /\ pc \notin {"idle", "route"}

\* C22: "describe all failing pods" is matched by the batch pattern of
\* Stage A and resolved without the language model into one list_pods call
\* with status_phase "Failed" and the batch describe flags; the turn then
\* describes every listed pod and returns one batch result.
C22_DescribeAllFailingPods ==
    FailingPodsRouted
    => /\ Len(instant_tools) = 1
       /\ Contains(instant_tools[1].name, <<"list", "_">> \o pods)
       /\ "status_phase" \in DOMAIN instant_tools[1].arguments
       /\ instant_tools[1].arguments["status_phase"] = <<"Failed">>
       /\ "_batch_describe" \in DOMAIN instant_tools[1]
       /\ lm_requests = << >>
       /\ Executed /\ result.output.lines[1].result.success /\ listed # << >>
          => /\ "_batch" \in DOMAIN result.output.lines[1].result
             /\ \A j \in DOMAIN Named(listed) :
                    \E r \in DOMAIN dispatched :
                        /\ dispatched[r].origin = "describe"
                        /\ \E key \in DOMAIN dispatched[r].arguments :
                               dispatched[r].arguments[key] = Named(listed)[j].name

\* what the code does with that query: no pattern matches it and the
\* language model is asked
C22_FailingIsNoPhase ==
    FailingPodsRouted
    => /\ instant_tools = NoCalls
       /\ pc \notin {"cache", "shortlist", "fast"} => lm_requests # << >> \/ CacheHit

\* the turn of "describe all failing pods" has asked the language model
C22_Witness ==
    /\ FailingPodsRouted
    /\ Requests("fast") # {}

\* the document the parsers were given is a JSON list of a name and a dict
IsPair(r) ==
    /\ r.kind = "json" /\ r.data.top = "list" /\ Len(r.data.items) = 2
    /\ r.data.items[1].type = "str" /\ r.data.items[2].type = "dict"

\* the document is one JSON object with a name
IsBareCall(r) ==
    r.kind = "json" /\ r.data.top = "dict" /\ IsNamedDict(r.data.items[1])

\* _validate_and_parse has returned for the response
Validated == parse_pc \in {"validated", "got"}

\* C24 as stated: _validate_and_parse turns a bare JSON object with a name
\* into a list of one call and a [name, args] pair into one call with that
\* name and those arguments, and every element of a list it returns has a
\* name and a dict of arguments.
C24_AcceptsObjectAndPair ==
    Validated =>
        /\ IsBareCall(response) =>
              /\ Len(validated) = 1
              /\ validated[1].name = response.data.items[1].entries["name"]
        /\ IsPair(response) =>
              validated = <<[name |-> response.data.items[1],
                             arguments |-> response.data.items[2]]>>
        /\ \A i \in DOMAIN validated : validated[i].arguments.type = "dict"

\* C24, what the code does: the bare object is accepted; the pair is accepted
\* only when its dict has a "name" key, since the list is looked at only
\* when one of its elements is a dict with a name; and the arguments of a
\* returned call are whatever truthy value the document had there.
C24_PairNeedsNamedDict ==
    Validated =>
        /\ IsBareCall(response) =>
              /\ Len(validated) = 1
              /\ validated[1].name = response.data.items[1].entries["name"]
        /\ IsPair(response) =>
              validated = IF IsNamedDict(response.data.items[2])
                          THEN <<[name |-> response.data.items[1],
                                  arguments |-> response.data.items[2]]>>
                          ELSE NoCalls
        /\ (response.kind = "json" /\ response.data.top = "list"
              /\ \E i \in DOMAIN response.data.items : IsNamedDict(response.data.items[i]))
              => Len(validated) > 0
        /\ \A i \in DOMAIN validated :
              validated[i].arguments.type = "dict" \/ Truthy(validated[i].arguments)

\* a pair whose dict has no name was given and nothing came back
C24_Witness ==
    /\ Validated
    /\ IsPair(response)
    /\ ~IsNamedDict(response.data.items[2])
    /\ validated = NoCalls

\* get_tool_calls has returned for the response
Got == parse_pc = "got"

\* a call as the prompt asks for it: a dict with a name and a dict of arguments
WellFormed(item) ==
    /\ IsNamedDict(item)
    /\ "arguments" \in DOMAIN item.entries
    /\ item.entries["arguments"].type = "dict"

\* a dict with a name and no arguments key
Argless(item) == IsNamedDict(item) /\ "arguments" \notin DOMAIN item.entries

\* the call get_tool_calls makes of an element it keeps
Filled(item) ==
    IF Argless(item) THEN JDict(item.entries @@ ("arguments" :> JDict(EmptyDict)))
    ELSE item

RECURSIVE Kept(_)
\* the elements kept, in order: those with a name whose arguments are
\* absent or a dict
Kept(items) ==
    IF items = << >> THEN << >>
    ELSE (IF WellFormed(Head(items)) \/ Argless(Head(items))
          THEN <<Filled(Head(items))>> ELSE << >>) \o Kept(Tail(items))

EndpointByPrefix(tool_name) ==
    IF StartsWith(tool_name, remote_k8s_) THEN "remote cluster"
    ELSE IF StartsWith(tool_name, <<"k8s", "_">>) \/ StartsWith(tool_name, local_k8s_)
    THEN "local cluster"
    ELSE "container engine"

\* the endpoint behind a URL
EndpointAt(url) ==
    CASE url = REMOTE_K8S_MCP_URL -> "remote cluster"
      [] url = K8S_MCP_URL        -> "local cluster"
      [] url = MCP_URL            -> "container engine"

\* the requests posted for the call at position i
PostedFor(i) == {r \in DOMAIN posted : posted[r].index = i}

\* the call at position i was dispatched
Dispatched(i) ==
    \E e \in DOMAIN final_results :
        final_results[e].index = i /\ ~final_results[e].cancelled

\* C23 as stated: each dispatched call is posted once, to the endpoint its
\* prefix names, where k8s_ and local_k8s_ both name the local cluster.
C23_EndpointByPrefix ==
    /\ \A i \in DOMAIN seq_tool_calls :
          Cardinality(PostedFor(i)) = IF Dispatched(i) THEN 1 ELSE 0
    /\ \A r \in DOMAIN posted :
          EndpointAt(posted[r].url) = EndpointByPrefix(posted[r].method)

\* C23, amended: each dispatched call is posted once, to one endpoint.  The
\* sequential process_query posts remote_k8s_ names to the remote cluster,
\* k8s_ names to the local cluster and every other name, local_k8s_ names
\* among them, to the container engine; call_tool_async chooses for the same
\* names as the claim says.
C23_EndpointByPrefixPerDispatcher ==
    /\ \A i \in DOMAIN seq_tool_calls :
          Cardinality(PostedFor(i)) = IF Dispatched(i) THEN 1 ELSE 0
    /\ \A r \in DOMAIN posted :
          EndpointAt(posted[r].url) =
              IF StartsWith(posted[r].method, local_k8s_) THEN "container engine"
              ELSE EndpointByPrefix(posted[r].method)
    /\ \A i \in DOMAIN seq_tool_calls :
          EndpointAt(ToolUrl(ToolName(seq_tool_calls[i]))) =
              EndpointByPrefix(ToolName(seq_tool_calls[i]))

\* a local_k8s_ call and a k8s_ call were both dispatched by process_query
C23_Witness ==
    /\ seq_pc = "done"
    /\ \E r \in DOMAIN posted :
          StartsWith(posted[r].method, local_k8s_) /\ posted[r].url = MCP_URL
    /\ \E r \in DOMAIN posted :
          StartsWith(posted[r].method, <<"k8s", "_">>) /\ posted[r].url = K8S_MCP_URL

\* the events of the log about the call at position i
Confirms(i)   == {e \in DOMAIN seq_log : seq_log[e].kind = "confirm" /\ seq_log[e].index = i}
Dispatches(i) == {e \in DOMAIN seq_log : seq_log[e].kind = "dispatch" /\ seq_log[e].index = i}

\* the call at position i was declined
Declined(i) == \E e \in Confirms(i) : ~seq_log[e].ok

\* the loop has finished with the call at position i
Finished(i) == Declined(i) \/ Dispatches(i) # {}

\* C29: process_query handles the calls in list order, one at a time: a call
\* is confirmed once, and dispatched once if and only if it was confirmed,
\* before the next call is looked at; a declined call is never dispatched and
\* the calls after it are still handled; the output has one entry per call,
\* in list order.
C29_SequentialInListOrder ==
    /\ \A e, f \in DOMAIN seq_log : e < f => seq_log[e].index <= seq_log[f].index
    /\ \A i \in DOMAIN seq_tool_calls :
          /\ Cardinality(Confirms(i)) <= 1
          /\ Cardinality(Dispatches(i)) <= 1
          /\ Cardinality(PostedFor(i)) = Cardinality(Dispatches(i))
          /\ \A d \in Dispatches(i) : \E c \in Confirms(i) : c < d /\ seq_log[c].ok
          /\ Declined(i) => Dispatches(i) = {}
          /\ (Confirms(i) # {} /\ i > 1) => Finished(i - 1)
    /\ \A r \in DOMAIN posted :
          /\ posted[r].method = ToolName(seq_tool_calls[posted[r].index])
          /\ posted[r].params = ToolArguments(seq_tool_calls[posted[r].index])
    /\ seq_pc = "done" /\ seq_output.understood =>
          /\ Len(seq_output.entries) = Len(seq_tool_calls)
          /\ \A i \in DOMAIN seq_tool_calls :
                /\ Finished(i)
                /\ seq_output.entries[i].index = i
                /\ seq_output.entries[i].tool = ToolName(seq_tool_calls[i])
                /\ seq_output.entries[i].cancelled = Declined(i)

\* the first of two calls was declined and the second dispatched
C29_Witness ==
    /\ seq_pc = "done"
    /\ Len(seq_tool_calls) = 2
    /\ Declined(1)
    /\ Dispatches(2) # {}
    /\ Len(seq_output.entries) = 2

\* the instance the latest registration of the name made
LatestRegistered(name) ==
    LET regs == {r \in DOMAIN registrations : registrations[r].name = name} IN
    IF regs = {} THEN NoTool
    ELSE registrations[CHOOSE r \in regs : \A o \in regs : o <= r]

\* C26: after any registrations the registry holds one instance per distinct
\* name, the one the latest registration of that name made; get_tool(name)
\* returns that very instance, which is also the one get_tools lists, and
\* None for a name that was never registered.
C26_OneInstancePerName ==
    /\ \A i, j \in DOMAIN _tools : _tools[i].name = _tools[j].name => i = j
    /\ {_tools[i].name : i \in DOMAIN _tools}
          = {registrations[r].name : r \in DOMAIN registrations}
    /\ \A i \in DOMAIN _tools : _tools[i].tool = LatestRegistered(_tools[i].name)
    /\ reg_answer.op = "get_tool" =>
          /\ reg_answer.tools = <<LatestRegistered(reg_answer.name)>>
          /\ reg_answer.tools[1] # NoTool =>
                \E i \in DOMAIN Values(_tools) : Values(_tools)[i] = reg_answer.tools[1]
          /\ (\A r \in DOMAIN registrations : registrations[r].name # reg_answer.name)
                => reg_answer.tools = <<NoTool>>
    /\ reg_answer.op = "get_tools" =>
          /\ Len(reg_answer.tools) = Cardinality({registrations[r].name : r \in DOMAIN registrations})
          /\ \A i \in DOMAIN reg_answer.tools :
                reg_answer.tools[i] = LatestRegistered(reg_answer.tools[i].name)

\* a name was registered twice and then looked up: the second instance came back
C26_Witness ==
    /\ reg_answer.op = "get_tool"
    /\ \E r1, r2 \in DOMAIN registrations :
          /\ r1 < r2
          /\ registrations[r1].name = reg_answer.name
          /\ registrations[r2].name = reg_answer.name
          /\ reg_answer.tools = <<registrations[r2]>>

\* C27 as stated: in every interleaving of the starts at most one supervisor
\* has its servers launched at a time; a start that finds a live supervisor
\* exits without spawning; a stale or corrupt lockfile is removed and does
\* not block the start.
C27_SingleInstance ==
    /\ Cardinality({l \in Launchers : Supervising(l)}) <= 1
    /\ \A l \in Launchers :
          /\ found[l] = "live" => lpc[l] = "refused"
          /\ found[l] \in {"stale", "corrupt"} => lpc[l] # "refused"

\* C27, what the lockfile gives: a start whose check_lock reads a lockfile
\* naming a live PID exits without spawning, and a stale or corrupt lockfile
\* is removed and does not block; a start whose check_lock runs before the
\* other supervisor has written its lockfile is not stopped.
C27_LockfileBlocksOnceWritten ==
    \A l \in Launchers :
        /\ found[l] = "live" => lpc[l] = "refused"
        /\ found[l] \in {"stale", "corrupt"} => lpc[l] # "refused"
        /\ lpc[l] = "refused" => found[l] = "live"

\* two supervisors have their servers launched at once
C27_Witness ==
    \E l1, l2 \in Launchers : l1 # l2 /\ Supervising(l1) /\ Supervising(l2)

\* C28 as stated: after delete_session(s) has returned true no message of s
\* remains, so a session created with the same id right afterwards is read
\* back with an empty message list; deleting an unknown id returns false and
\* changes nothing.
C28_DeleteRemovesMessages ==
    /\ (db_answer.op = "delete_session" /\ db_answer.ok) =>
          /\ db_answer.session_id \notin sessions
          /\ MessagesOf(messages, db_answer.session_id) = << >>
    /\ (db_answer.op = "get_session" /\ db_answer.session_id \in fresh) =>
          db_answer.messages = << >>
    /\ (db_answer.op = "delete_session" /\ ~db_answer.ok) =>
          /\ db_answer.session_id \notin db_before.sessions
          /\ sessions = db_before.sessions
          /\ messages = db_before.messages

\* C28, what the code does: delete_session removes the row of the session
\* and returns whether there was one; the messages go with it only where
\* the library enforces foreign keys, else they stay and the next session of
\* that id is read back with them; deleting an unknown id returns false and
\* changes nothing.
C28_DeleteRemovesSessionRow ==
    /\ (db_answer.op = "delete_session" /\ db_answer.ok) =>
          /\ db_answer.session_id \in db_before.sessions
          /\ db_answer.session_id \notin sessions
          /\ foreign_keys = "on" => MessagesOf(messages, db_answer.session_id) = << >>
          /\ foreign_keys = "off" => messages = db_before.messages
    /\ (db_answer.op = "get_session" /\ db_answer.ok) =>
          db_answer.messages = MessagesOf(messages, db_answer.session_id)
    /\ (db_answer.op = "delete_session" /\ ~db_answer.ok) =>
          /\ db_answer.session_id \notin db_before.sessions
          /\ sessions = db_before.sessions
          /\ messages = db_before.messages

\* a session deleted and created again was read back with a message of
\* the session deleted
C28_Witness ==
    /\ db_answer.op = "get_session"
    /\ db_answer.session_id \in fresh
    /\ db_answer.messages # << >>

\* a careful request is made in this step
CarefulStep == pc = "careful" /\ lm_requests' = Append(lm_requests, "careful")

\* between two careful attempts none of which raised, last_error is the
\* validation error of the attempt just made
LastErrorIsOfLastAttempt ==
    (pc = "careful" /\ attempt > 0 /\ verdict = "invalid")
        => /\ last_error = CarefulError(prediction, tools_schema)
           /\ last_error # ""

\* C30 as stated: the first careful attempt carries no error text; every
\* careful retry has the error of the attempt just before it appended to
\* the unchanged query, and that error only.
C30_RetryCarriesLastError ==
    /\ []LastErrorIsOfLastAttempt
    /\ [][CarefulStep =>
            /\ modified_query'.query = query
            /\ attempt = 0 => modified_query'.errors = << >>
            /\ attempt > 0 => modified_query'.errors = <<last_error>> /\ last_error # ""]_vars

\* C30, amended: the first careful attempt carries no error text; a careful
\* retry carries, after the unchanged query, the error of the attempt just
\* before it and no other: its validation error, or the text of the
\* exception it raised, and nothing when that text is empty.
C30_RetryCarriesNonEmptyLastError ==
    /\ []LastErrorIsOfLastAttempt
    /\ [][CarefulStep =>
            /\ modified_query'.query = query
            /\ Len(modified_query'.errors) <= 1
            /\ attempt = 0 => modified_query'.errors = << >>
            /\ (attempt > 0 /\ last_error # "") => modified_query'.errors = <<last_error>>
            /\ (attempt > 0 /\ last_error = "") => modified_query'.errors = << >>]_vars

\* a second retry was made that carried the error of the first retry, and
\* failed with another error
C30_Witness ==
    /\ pc = "careful"
    /\ attempt = 2
    /\ modified_query.errors # << >>
    /\ modified_query.errors[1] # last_error
    /\ last_error # ""

otherVarsPulse == <<turnVars, memVars, parseVars, seqVars, regVars, lockVars, dbVars,
                    cliVars, loopVars, batchVars, streamVars>>

\* a faulty start() without the test of the flag
start_unconditionally ==
    /\ _running' = TRUE
    /\ loops' = Append(loops, NewLoop)
    /\ _task' = Len(loops) + 1

\* start(): nothing when the pulse runs, else the flag is set and the loop
\* task created; there is no await between the test and the assignment
start ==
    IF _running
    THEN UNCHANGED <<_running, _task, loops>>
    ELSE /\ _running' = TRUE
         /\ loops' = Append(loops, NewLoop)
         /\ _task' = Len(loops) + 1

\* api_server.lifespan on startup: await pulse.start()
LifespanStartup ==
    /\ lifespan = "init"
    /\ start_calls = 0
    /\ start
    /\ lifespan' = "up"
    /\ start_calls' = start_calls + 1
    /\ UNCHANGED <<start_tasks, awaited, global_index, refreshed, ptime, otherVarsPulse>>

\* process_query_async, lines 79-82: a turn that sees the pulse not running
\* schedules start() as a task of its own
TurnStartsPulse ==
    /\ start_calls < MaxStartCalls
    /\ ~_running
    /\ start_tasks' = start_tasks + 1
    /\ start_calls' = start_calls + 1
    /\ UNCHANGED <<_running, _task, loops, lifespan, awaited, global_index, ptime,
                   refreshed, otherVarsPulse>>

\* the event loop runs a scheduled start()
StartTask ==
    /\ start_tasks > 0
    /\ start
    /\ start_tasks' = start_tasks - 1
    /\ UNCHANGED <<start_calls, lifespan, awaited, global_index, refreshed, ptime, otherVarsPulse>>

\* api_server.lifespan on shutdown: stop() up to its `await self._task`
LifespanShutdown ==
    /\ lifespan = "up"
    /\ IF ~_running
       THEN /\ lifespan' = "down"
            /\ UNCHANGED <<_running, loops, awaited>>
       ELSE /\ _running' = FALSE
            /\ IF _task = 0
               THEN /\ lifespan' = "down"
                    /\ UNCHANGED <<loops, awaited>>
               ELSE /\ loops' = [loops EXCEPT ![_task].cancel =
                                    IF Done(loops[_task]) THEN @ ELSE TRUE]
                    /\ awaited' = _task
                    /\ lifespan' = "stopping"
    /\ UNCHANGED <<_task, start_tasks, start_calls, global_index, refreshed, ptime, otherVarsPulse>>

\* the awaited task is done: stop() goes on after its await, with the
\* CancelledError caught or the task's own exception raised
StopReturns ==
    /\ lifespan = "stopping"
    /\ Done(loops[awaited])
    /\ lifespan' = "down"
    /\ UNCHANGED <<_running, _task, loops, start_tasks, start_calls, awaited,
                   global_index, refreshed, ptime, otherVarsPulse>>

\* one pass of the body of _pulse_loop, from `while self._running` to the
\* await of the gather: the refresh is one of the gathered tasks when it is
\* due, and it begins by pruning the index
Iterate(t) ==
    /\ loops[t].state \in {"created", "sleep"}
    /\ ~loops[t].cancel
    /\ loops[t].state = "sleep" => ptime >= loops[t].wake
    /\ IF ~_running
       THEN /\ loops' = [loops EXCEPT ![t].state = "finished"]
            /\ UNCHANGED global_index
       ELSE IF ptime - global_index.last_check >= global_index_interval
       THEN /\ loops' = [loops EXCEPT ![t].state = "gather",
                                      ![t].refresh = "scan",
                                      ![t].scan = [p \in Providers |-> "pods"],
                                      ![t].seen = NoneSeen]
            /\ global_index' = [global_index EXCEPT
                                   !.resources = PruneIndex(@, ptime)]
       ELSE /\ loops' = [loops EXCEPT ![t].state = "gather", ![t].refresh = "none"]
            /\ UNCHANGED global_index
    /\ UNCHANGED <<_running, _task, start_tasks, start_calls, lifespan, awaited, ptime,
                   refreshed, otherVarsPulse>>

\* scan_provider(p) gets the answer to its list call of the category it is
\* at and goes through the items
Scan(t, p, res) ==
    /\ loops[t].refresh = "scan"
    /\ loops[t].scan[p] \in Categories
    /\ LET c   == loops[t].scan[p]
           out == IF res.success
                  THEN ScanItems(global_index.resources, c, res.items, p, ptime, 1)
                  ELSE [index |-> global_index.resources, raised |-> FALSE]
       IN  /\ global_index' = [global_index EXCEPT !.resources = out.index]
           /\ loops' = [loops EXCEPT
                  ![t].scan[p] = IF out.raised \/ c = "deployments"
                                 THEN "done" ELSE "deployments",
                  ![t].seen[p][c] = IF res.success THEN Names(res.items) ELSE {}]
    /\ UNCHANGED <<_running, _task, start_tasks, start_calls, lifespan, awaited, ptime,
                   refreshed, otherVarsPulse>>

\* lines 216-219: both scans are over and the index is stored
RefreshEnd(t) ==
    /\ loops[t].refresh = "scan"
    /\ \A p \in Providers : loops[t].scan[p] = "done"
    /\ global_index' = [resources |-> global_index.resources, last_check |-> ptime]
    /\ refreshed' = [at |-> ptime, seen |-> loops[t].seen]
    /\ loops' = [loops EXCEPT ![t].refresh = "done", ![t].seen = NoneSeen]
    /\ UNCHANGED <<_running, _task, start_tasks, start_calls, lifespan, awaited, ptime,
                   otherVarsPulse>>

\* every gathered task is over: the loop goes to its sleep(1)
GatherDone(t) ==
    /\ loops[t].state = "gather"
    /\ ~loops[t].cancel
    /\ loops[t].refresh \in {"none", "done"}
    /\ loops' = [loops EXCEPT ![t].state = "sleep", ![t].wake = ptime + 1]
    /\ UNCHANGED <<_running, _task, start_tasks, start_calls, lifespan, awaited,
                   global_index, refreshed, ptime, otherVarsPulse>>

\* a gathered health check raises: _check_llm and _check_embeddings import
\* their probe outside their try (126, 140), and gather hands the first
\* exception to the loop task while the other gathered tasks go on
HealthCheckRaises(t) ==
    /\ loops[t].state = "gather"
    /\ ~loops[t].cancel
    /\ loops' = [loops EXCEPT ![t].state = "failed"]
    /\ UNCHANGED <<_running, _task, start_tasks, start_calls, lifespan, awaited,
                   global_index, refreshed, ptime, otherVarsPulse>>

\* the CancelledError stop() asked for reaches the task at its await; the
\* tasks it gathers are cancelled with it
Cancelled(t) ==
    /\ ~Done(loops[t])
    /\ loops[t].cancel
    /\ loops' = [loops EXCEPT ![t].state = "cancelled",
                              ![t].refresh = IF @ = "scan" THEN "cancelled" ELSE @,
                              ![t].seen = NoneSeen]
    /\ UNCHANGED <<_running, _task, start_tasks, start_calls, lifespan, awaited,
                   global_index, refreshed, ptime, otherVarsPulse>>

\* time passes
PulseSteps == {1, global_index_interval}
PulseTick(d) ==
    /\ ptime + d <= MaxPulseTime
    /\ ptime' = ptime + d
    /\ UNCHANGED <<_running, _task, loops, start_tasks, start_calls, lifespan, awaited,
                   global_index, refreshed, otherVarsPulse>>

PulseNext ==
    \/ LifespanStartup
    \/ TurnStartsPulse
    \/ StartTask
    \/ LifespanShutdown
    \/ StopReturns
    \/ \E t \in 1..Len(loops) : Iterate(t)
    \/ \E t \in 1..Len(loops), p \in Providers, res \in PulseResults : Scan(t, p, res)
    \/ \E t \in 1..Len(loops) : RefreshEnd(t)
    \/ \E t \in 1..Len(loops) : GatherDone(t)
    \/ \E t \in 1..Len(loops) : HealthCheckRaises(t)
    \/ \E t \in 1..Len(loops) : Cancelled(t)
    \/ \E d \in PulseSteps : PulseTick(d)

PulseSpec == Init /\ [][PulseNext]_vars

\* name is in the index under category c with an entry of provider p
Indexed(c, name, p) ==
    /\ c \in DOMAIN global_index.resources
    /\ name \in DOMAIN global_index.resources[c]
    /\ \E i \in 1..Len(global_index.resources[c][name]) :
           global_index.resources[c][name][i].mcp = p

\* C31: once a refresh of the global index is stored in which a backend's
\* list-pods or list-deployments call succeeded, every name that call
\* returned is in the index under that backend, and stays there for the
\* 300 s after it was seen.
C31_ReturnedNamesIndexed ==
    ptime - refreshed.at <= prune_age =>
        \A p \in Providers, c \in Categories :
            \A name \in refreshed.seen[p][c] : Indexed(c, name, p)

\* what the code does instead: the index __init__ made has no category, so
\* no refresh ever puts a name in it
C31_IndexStaysEmpty == global_index.resources = EmptyDict

\* a refresh is stored in which a list-pods call returned a name
C31_Witness == \E p \in Providers : refreshed.seen[p]["pods"] # {}

\* the event loop is fair to the tasks it holds: a cancelled task gets its
\* CancelledError, and a stop() whose awaited task is done goes on
PulseLiveSpec ==
    /\ PulseSpec
    /\ WF_vars(\E t \in 1..Len(loops) : Cancelled(t))
    /\ WF_vars(StopReturns)

\* a _pulse_loop task that can still run a pass of its loop
LoopRuns(t) == ~Done(loops[t]) /\ ~loops[t].cancel

\* stop() was not called yet
NotStopped == lifespan \in {"init", "up"}

OneLoop ==
    /\ Cardinality({t \in 1..Len(loops) : LoopRuns(t)}) <= 1
    /\ NotStopped => Len(loops) <= 1
    /\ lifespan = "down" /\ awaited # 0 => Done(loops[awaited])

\* C39: at most one pulse loop runs at any time, whatever the interleaving of
\* the start() calls of the lifespan hook and of turns: one _pulse_loop task
\* is created until stop() is called, and the task stop() cancels terminates,
\* after which stop() returns.
C39_AtMostOnePulseLoop ==
    /\ []OneLoop
    /\ (lifespan = "stopping") ~> (lifespan = "down" /\ Done(loops[awaited]))

\* two start() calls were issued and have run, and one loop task exists
C39_Witness ==
    /\ start_calls >= 2
    /\ start_tasks = 0
    /\ Len(loops) = 1
    /\ LoopRuns(1)

otherVarsCli == <<turnVars, memVars, parseVars, seqVars, regVars, lockVars, dbVars,
                  pulseVars, loopVars, batchVars, streamVars>>

\* chat_command, lines 190-217: the session is created, or read with its
\* messages by get_session when the chat resumes one
ChatStart ==
    /\ chat_pc = "none"
    /\ turns < MaxTurns
    /\ chat_pc' = "chat"
    /\ session_messages' = store
    /\ turns' = turns + 1
    /\ passed' = << >>
    /\ logs' = << >>
    /\ UNCHANGED <<store, otherVarsCli>>

\* one pass of the REPL: process_command_turn(current_session, query)
process_command_turn(q, result_pkg) ==
    /\ chat_pc = "chat"
    /\ turns < MaxTurns
    /\ turns' = turns + 1
    /\ LET user    == Message("user", q.text, q.len)
           hist    == HistoryOf(session_messages)
           after   == IF result_pkg.disambiguation_needed /\ result_pkg.choice = "invalid"
                      THEN << >>
                      ELSE Logged(result_pkg)
       IN  /\ store' = store \o <<user>> \o after
           /\ passed' = Append(passed, hist)
           /\ logs' = Append(logs, <<user>> \o after)
    /\ UNCHANGED <<chat_pc, session_messages, otherVarsCli>>

\* the user types exit: the process ends, the store stays
ChatExit ==
    /\ chat_pc = "chat"
    /\ chat_pc' = "none"
    /\ session_messages' = << >>
    /\ passed' = << >>
    /\ logs' = << >>
    /\ UNCHANGED <<store, turns, otherVarsCli>>

CliNext ==
    \/ ChatStart
    \/ \E q \in ChatQueries, result_pkg \in ResultPkgs :
           process_command_turn(q, result_pkg)
    \/ ChatExit

CliSpec == Init /\ [][CliNext]_vars

\* the messages turns 1..n-1 of this chat wrote, in order
RECURSIVE WrittenBefore(_)
WrittenBefore(n) == IF n <= 1 THEN << >> ELSE WrittenBefore(n - 1) \o logs[n - 1]

\* seq ends with the elements of part, in order
EndsWith(seq, part) ==
    /\ Len(part) <= Len(seq)
    /\ SubSeq(seq, Len(seq) - Len(part) + 1, Len(seq)) = part

\* C32: in an interactive session the history passed to the agent for turn n
\* contains, in order, the messages turns 1..n-1 of that session wrote to the
\* store (as the history renders them).
C32_HistoryHasEarlierTurns ==
    \A n \in 1..Len(passed) : EndsWith(passed[n], HistoryOf(WrittenBefore(n)))

\* what the code does instead: every turn of a chat passes the messages the
\* session had when the chat began
C32_HistoryIsOfChatStart ==
    \A n \in 1..Len(passed) : passed[n] = HistoryOf(session_messages)

\* a second turn of a chat has passed its history
C32_Witness == Len(passed) >= 2 /\ logs[1] # << >>

otherVarsLoop == <<turnVars, memVars, parseVars, seqVars, regVars, lockVars, dbVars,
                   pulseVars, cliVars, batchVars, streamVars>>

\* a turn runs from its start to its first await; on the way it may create
\* the speculative prefetch task (agent.py:179)
TurnBegins(t, speculates) ==
    /\ thread = "none"
    /\ lc[t] = "new"
    /\ lc' = [lc EXCEPT ![t] = "context"]
    /\ prefetch' = [prefetch EXCEPT ![t] = IF speculates THEN "posted" ELSE "none"]
    /\ UNCHANGED <<thread, lm_calls, beats, otherVarsLoop>>

\* the await of the context fetch is over; the turn runs on to line 357,
\* `prediction = agent(...)`: a plain call, no await, so the thread stays with
\* the turn while forward sends its first request and waits for the answer
AgentCalled(t) ==
    /\ thread = "none"
    /\ lc[t] = "context"
    /\ lc' = [lc EXCEPT ![t] = "lm"]
    /\ thread' = t
    /\ lm_calls' = [lm_calls EXCEPT ![t] = 1]
    /\ UNCHANGED <<prefetch, beats, otherVarsLoop>>

\* the model answers a request of forward: forward sends the next one (the
\* first careful request, or a retry), or returns and the turn runs on to the
\* await of its dispatch
ModelAnswers(t, again) ==
    /\ lc[t] = "lm"
    /\ thread = t
    /\ IF again
       THEN /\ lm_calls[t] < 1 + (max_retries + 1)
            /\ lm_calls' = [lm_calls EXCEPT ![t] = @ + 1]
            /\ UNCHANGED <<lc, thread>>
       ELSE /\ lc' = [lc EXCEPT ![t] = "dispatch"]
            /\ thread' = "none"
            /\ UNCHANGED lm_calls
    /\ UNCHANGED <<prefetch, beats, otherVarsLoop>>

\* the gather of the backend calls is over and the turn returns
TurnEnds(t) ==
    /\ thread = "none"
    /\ lc[t] = "dispatch"
    /\ lc' = [lc EXCEPT ![t] = "done"]
    /\ UNCHANGED <<thread, lm_calls, prefetch, beats, otherVarsLoop>>

\* a step of a speculative prefetch task
PrefetchStep(t) ==
    /\ thread = "none"
    /\ prefetch[t] = "posted"
    /\ prefetch' = [prefetch EXCEPT ![t] = "done"]
    /\ UNCHANGED <<lc, thread, lm_calls, beats, otherVarsLoop>>

\* a pass of the pulse loop
PulseBeat ==
    /\ thread = "none"
    /\ beats < MaxBeats
    /\ beats' = beats + 1
    /\ UNCHANGED <<lc, thread, lm_calls, prefetch, otherVarsLoop>>

LoopNext ==
    \/ \E t \in TurnIds, speculates \in BOOLEAN : TurnBegins(t, speculates)
    \/ \E t \in TurnIds : AgentCalled(t)
    \/ \E t \in TurnIds, again \in BOOLEAN : ModelAnswers(t, again)
    \/ \E t \in TurnIds : TurnEnds(t)
    \/ \E t \in TurnIds : PrefetchStep(t)
    \/ PulseBeat

LoopSpec == Init /\ [][LoopNext]_vars

\* turn t waits for the model
WaitsForModel(t) == lc[t] = "lm"

\* the next step of turn u, which is at an await or new
TurnStep(u) ==
    \/ \E speculates \in BOOLEAN : TurnBegins(u, speculates)
    \/ AgentCalled(u)
    \/ TurnEnds(u)

\* C33: the model request of a turn is a suspension point: while a turn waits
\* for the model, the pulse task, an in-flight speculative prefetch and the
\* other turns on the loop can take their next step.
C33_ModelRequestSuspends ==
    \A t \in TurnIds :
        WaitsForModel(t) =>
            /\ beats < MaxBeats => ENABLED PulseBeat
            /\ \A u \in TurnIds : prefetch[u] = "posted" => ENABLED PrefetchStep(u)
            /\ \A u \in TurnIds \ {t} :
                   lc[u] \in {"new", "context", "dispatch"} => ENABLED TurnStep(u)

\* what the code does instead: while a turn waits for the model no other
\* task of the loop takes a step
C33_ModelRequestBlocksLoop ==
    [][\A t \in TurnIds :
          WaitsForModel(t) =>
              /\ beats' = beats
              /\ prefetch' = prefetch
              /\ \A u \in TurnIds \ {t} : lc'[u] = lc[u]]_vars

\* a turn waits for the model while the pulse, a prefetch and another turn
\* have a step to take
C33_Witness ==
    \E t \in TurnIds :
        /\ WaitsForModel(t)
        /\ beats < MaxBeats
        /\ prefetch[t] = "posted"
        /\ \E u \in TurnIds \ {t} : lc[u] = "context"

otherVarsBatch == <<turnVars, memVars, parseVars, seqVars, regVars, lockVars, dbVars,
                    pulseVars, cliVars, loopVars, streamVars>>

Event(ev, kind, index, n) == [ev |-> ev, kind |-> kind, index |-> index, n |-> n]

\* line 558: gather starts the coroutine of every call
GatherCalls(calls) ==
    /\ bd_pc = "idle"
    /\ bd_pc' = "gather"
    /\ bd_calls' = calls
    /\ bd_log' = [i \in 1..Len(calls) |-> Event("post", "list", i, 0)]
    /\ UNCHANGED <<bd_results, bd_i, describe_tasks, bd_batches, otherVarsBatch>>

\* the coroutine of call k returns
CallReturns(k, res) ==
    /\ bd_pc = "gather"
    /\ k \in 1..Len(bd_calls)
    /\ k \notin DOMAIN bd_results
    /\ bd_results' = (k :> res) @@ bd_results
    /\ bd_log' = Append(bd_log, Event("end", "list", k, 0))
    /\ UNCHANGED <<bd_pc, bd_calls, bd_i, describe_tasks, bd_batches, otherVarsBatch>>

\* gather returns when every coroutine has; the result loop begins
GatherReturns ==
    /\ bd_pc = "gather"
    /\ DOMAIN bd_results = 1..Len(bd_calls)
    /\ bd_pc' = "loop"
    /\ bd_i' = 1
    /\ UNCHANGED <<bd_calls, bd_results, describe_tasks, bd_log, bd_batches,
                   otherVarsBatch>>

\* one pass of the result loop, lines 570-586: for a call flagged
\* _batch_describe whose result has success, _execute_batch_describe runs up
\* to its gather; it returns None at once for a listing without items
PostProcess ==
    /\ bd_pc = "loop"
    /\ bd_i <= Len(bd_calls)
    /\ IF /\ "_batch_describe" \in DOMAIN bd_calls[bd_i]
          /\ bd_results[bd_i].success
          /\ bd_results[bd_i].items # << >>
       THEN /\ describe_tasks' = DescribeTasks(bd_calls[bd_i], bd_results[bd_i].items)
            /\ bd_pc' = "describe"
            /\ UNCHANGED bd_i
       ELSE /\ bd_i' = bd_i + 1
            /\ UNCHANGED <<bd_pc, describe_tasks>>
    /\ UNCHANGED <<bd_calls, bd_results, bd_log, bd_batches, otherVarsBatch>>

\* line 703: the gather of the describe coroutines starts its tasks, each of
\* which posts its request
StartDescribes ==
    /\ bd_pc = "describe"
    /\ Starts(describe_tasks) # {}
    /\ \A n \in DOMAIN describe_tasks : describe_tasks[n].state # "posted"
    /\ describe_tasks' = [n \in DOMAIN describe_tasks |->
                             IF n \in Starts(describe_tasks)
                             THEN [describe_tasks[n] EXCEPT !.state = "posted"]
                             ELSE describe_tasks[n]]
    /\ bd_log' = bd_log \o
           [j \in 1..Cardinality(Starts(describe_tasks)) |->
               Event("post", "describe", bd_i, Ascending(Starts(describe_tasks))[j])]
    /\ UNCHANGED <<bd_pc, bd_calls, bd_results, bd_i, bd_batches, otherVarsBatch>>

\* the exchange of describe task n ends with outcome o
DescribeReturns(n, o) ==
    /\ bd_pc = "describe"
    /\ n \in DOMAIN describe_tasks
    /\ describe_tasks[n].state = "posted"
    /\ describe_tasks' = [describe_tasks EXCEPT ![n].state = o]
    /\ bd_log' = Append(bd_log, Event("end", "describe", bd_i, n))
    /\ UNCHANGED <<bd_pc, bd_calls, bd_results, bd_i, bd_batches, otherVarsBatch>>

\* every describe task has returned: lines 705-746 aggregate, the batch
\* result replaces the listing and the loop goes on
BatchAggregated ==
    /\ bd_pc = "describe"
    /\ \A n \in DOMAIN describe_tasks : describe_tasks[n].state \in DescribeOutcomes
    /\ bd_batches' = (bd_i :> BatchResult(bd_calls[bd_i], bd_results[bd_i].items,
                                          [n \in DOMAIN describe_tasks |->
                                              describe_tasks[n].state]))
                     @@ bd_batches
    /\ bd_log' = Append(bd_log, Event("aggregate", "describe", bd_i, 0))
    /\ bd_i' = bd_i + 1
    /\ bd_pc' = "loop"
    /\ describe_tasks' = << >>
    /\ UNCHANGED <<bd_calls, bd_results, otherVarsBatch>>

\* the result loop is over
LoopEnds ==
    /\ bd_pc = "loop"
    /\ bd_i > Len(bd_calls)
    /\ bd_pc' = "done"
    /\ UNCHANGED <<bd_calls, bd_results, bd_i, describe_tasks, bd_log, bd_batches,
                   otherVarsBatch>>

BatchNext ==
    \/ \E calls \in BatchTurns : GatherCalls(calls)
    \/ \E k \in 1..MaxCalls, res \in ListAnswers : CallReturns(k, res)
    \/ GatherReturns
    \/ PostProcess
    \/ StartDescribes
    \/ \E n \in 1..MaxItems, o \in DescribeOutcomes : DescribeReturns(n, o)
    \/ BatchAggregated
    \/ LoopEnds

BatchSpec == Init /\ [][BatchNext]_vars

\* the positions of the log with such an event
Events(ev, kind, index) ==
    {e \in DOMAIN bd_log :
        bd_log[e].ev = ev /\ bd_log[e].kind = kind /\ bd_log[e].index = index}

\* the describe calls a listing asks for
Wanted(i) == 1..Len(Named(bd_results[i].items))

\* C34: in a batch-describe turn the list call has completed before any of
\* its describe calls is posted, describe calls are posted only for a list
\* call that succeeded, every describe call of it is in flight before any of
\* them returns, and the aggregated result is made only after each of them
\* has returned.
C34_ListThenConcurrentDescribes ==
    \A i \in 1..Len(bd_calls) :
        /\ \A p \in Events("post", "describe", i) :
               /\ \E e \in Events("end", "list", i) : e < p
               /\ bd_results[i].success
               /\ "_batch_describe" \in DOMAIN bd_calls[i]
        /\ \A e \in Events("end", "describe", i) :
               {bd_log[p].n : p \in {q \in Events("post", "describe", i) : q < e}}
                   = Wanted(i)
        /\ \A a \in Events("aggregate", "describe", i) :
               /\ {bd_log[e].n : e \in {q \in Events("end", "describe", i) : q < a}}
                      = Wanted(i)
               /\ i \in DOMAIN bd_batches
        /\ i \in DOMAIN bd_batches => Events("aggregate", "describe", i) # {}

\* a batch of two describe calls was aggregated
C34_Witness ==
    /\ bd_pc = "done"
    /\ \E i \in DOMAIN bd_batches : Cardinality(Events("end", "describe", i)) = 2

ExecutedWithOutput ==
    pc = "done" /\ result.kind = "executed" /\ result.output.lines # << >>

DescribesOf(i) ==
    {d \in DOMAIN dispatched :
        dispatched[d].origin = "describe" /\ dispatched[d].index = i}

\* the request of call number i itself, the listing
ListingOf(i) ==
    {b \in DOMAIN dispatched :
        dispatched[b].origin # "describe" /\ dispatched[b].index = i
        /\ dispatched[b].name = tool_calls[i].name}

\* C36: in a batch-describe turn every describe call goes to the backend
\* group of the list call that was executed, the group of the call's name
\* after disambiguation.
C36_DescribesFollowListing ==
    \A i \in DOMAIN tool_calls :
        \A d \in DescribesOf(i) :
            /\ dispatched[d].url = ToolUrl(tool_calls[i].name)
            /\ \A b \in ListingOf(i) : dispatched[b].url = dispatched[d].url

\* what the code does instead: the describe calls go to the group of the
\* prefix the router chose from the query
C36_DescribesFollowRouterPrefix ==
    \A i \in DOMAIN tool_calls :
        \A d \in DescribesOf(i) :
            /\ "_batch_prefix" \in DOMAIN tool_calls[i]
            /\ StartsWith(dispatched[d].name, tool_calls[i]._batch_prefix)

\* a batch-describe turn has posted a describe call
C36_Witness ==
    \E i \in DOMAIN tool_calls : DescribesOf(i) # {} /\ ListingOf(i) # {}

\* C37: disambiguation is idempotent: applied to its own output with the
\* same query and history it leaves every call unchanged.
C37_DisambiguationIdempotent ==
    [][Disambiguate =>
        Disambiguation(tool_calls', query, history) = tool_calls']_vars

\* the turn is over and disambiguation has renamed a call
C37_Witness ==
    /\ pc = "done"
    /\ \E i \in DOMAIN tool_calls :
          /\ i \in DOMAIN pre_calls
          /\ pre_calls[i].name # tool_calls[i].name
          /\ Disambiguation(tool_calls, query, history)[i] = tool_calls[i]

\* the session memory and the last-backend marker of session b are the
\* same before and after the step
SessionUntouched(b) ==
    /\ (b \in DOMAIN _cache') = (b \in DOMAIN _cache)
    /\ b \in DOMAIN _cache => _cache'[b] = _cache[b]
    /\ (b \in DOMAIN _last_mcp_map') = (b \in DOMAIN _last_mcp_map)
    /\ b \in DOMAIN _last_mcp_map => _last_mcp_map'[b] = _last_mcp_map[b]

\* C38: episodic memory is isolated per session: update, get_context_block,
\* clear and set_last_mcp applied to session A leave the entities and the
\* last-backend marker of every other session B as they were, and an
\* operation given an empty session id changes nothing.
C38_SessionsIsolated ==
    [][ops' = ops + 1 =>
          /\ \A b \in Sessions : b # last_op'.session_id => SessionUntouched(b)
          /\ last_op'.session_id = "" =>
                 _cache' = _cache /\ _last_mcp_map' = _last_mcp_map]_vars

\* get_context_block of session s1 has pruned s1's entity while session s2
\* keeps its marker and an entity of the same age
C38_Witness ==
    /\ last_op.op = "get_context_block" /\ last_op.session_id = "s1"
    /\ "s1" \in DOMAIN before._cache /\ DOMAIN before._cache["s1"] # {}
    /\ "s1" \in DOMAIN _cache /\ DOMAIN _cache["s1"] = {}
    /\ "s2" \in DOMAIN _cache
    /\ \E n \in DOMAIN _cache["s2"] : Expired(_cache["s2"][n], now)

\* ------------------------------ chat_stream.event_generator (api_server.py)
\* The agent-mode branch of the stream: run_agent, a task on the loop of the
\* generator, puts what the agent logs and how it ends on a queue; the
\* generator takes the items one by one and turns them into events.

otherVarsStream == <<turnVars, memVars, parseVars, seqVars, regVars, lockVars, dbVars,
                     pulseVars, cliVars, loopVars, batchVars>>

\* an item of the queue: (event_type, message)
Item(msg_type, msg_data) == [msg_type |-> msg_type, msg_data |-> msg_data]

\* the results process_query_async returns: whether tool_calls is non-empty,
\* whether a confirmation is requested (then the plan is returned with it),
\* and the chunks its output has
StreamResults ==
    { [tool_calls |-> tc, confirmation_request |-> cr, chunks |-> n] :
        tc \in BOOLEAN, cr \in BOOLEAN, n \in 0..MaxChunks } \
    { r \in [tool_calls : {FALSE}, confirmation_request : {TRUE}, chunks : 0..MaxChunks] :
        TRUE }

\* the result of a turn whose agent call raised (agent.py:375-378)
BrainFreeze == [tool_calls |-> FALSE, confirmation_request |-> FALSE, chunks |-> MaxChunks]

\* entries of sse
Yield(name) == [kind |-> "yield", name |-> name]
AddMessage(role) == [kind |-> "add_message", name |-> role]

RECURSIVE Tokens(_)
\* the token events of an output of n chunks
Tokens(n) == IF n = 0 THEN << >> ELSE <<Yield("token")>> \o Tokens(n - 1)

\* what the branch `msg_type == "result"` yields and stores, in order
OnResult(r) ==
    (IF r.tool_calls THEN <<Yield("thought"), Yield("tool_calls")>> ELSE << >>)
    \o Tokens(r.chunks)
    \o <<AddMessage("user"), AddMessage("assistant")>>
    \o (IF r.confirmation_request THEN <<Yield("confirmation_request")>> ELSE << >>)
    \o <<Yield("done")>>

\* the request reaches the agent-mode branch: the queue and the task are made
StreamOpens(f) ==
    /\ gen_pc = "idle"
    /\ gen_pc' = "waiting"
    /\ queue' = << >>
    /\ agent_task' = "pending"
    /\ forced' = f
    /\ collected_thoughts' = << >>
    /\ UNCHANGED <<sse, produced, agent_logs, polls, otherVarsStream>>

\* run_agent runs up to its await of process_query_async
AgentStarts ==
    /\ agent_task = "pending"
    /\ agent_task' = "running"
    /\ queue' = queue \o <<Item("status", "Thinking")>>
                      \o (IF forced THEN <<Item("thought", "ROUTER")>> ELSE << >>)
    /\ UNCHANGED <<gen_pc, forced, collected_thoughts, sse, produced, agent_logs, polls,
                   otherVarsStream>>

\* the agent logs through monitor_callback and goes on
AgentLogs(msg_type) ==
    /\ agent_task = "running"
    /\ agent_logs < MaxLogs
    /\ agent_logs' = agent_logs + 1
    /\ queue' = Append(queue, Item(msg_type, "log"))
    /\ UNCHANGED <<gen_pc, agent_task, forced, collected_thoughts, sse, produced, polls,
                   otherVarsStream>>

\* the agent call raises: process_query_async logs an error and returns the
\* result of the failure, which run_agent puts on the queue
AgentCallRaises ==
    /\ agent_task = "running"
    /\ agent_task' = "done"
    /\ queue' = queue \o <<Item("error", "DSPy Error"), Item("result", BrainFreeze)>>
    /\ produced' = "result"
    /\ UNCHANGED <<gen_pc, forced, collected_thoughts, sse, agent_logs, polls,
                   otherVarsStream>>

\* process_query_async returns r
AgentReturns(r) ==
    /\ agent_task = "running"
    /\ agent_task' = "done"
    /\ queue' = Append(queue, Item("result", r))
    /\ produced' = "result"
    /\ UNCHANGED <<gen_pc, forced, collected_thoughts, sse, agent_logs, polls,
                   otherVarsStream>>

\* process_query_async raises: run_agent catches it
AgentRaises ==
    /\ agent_task = "running"
    /\ agent_task' = "done"
    /\ queue' = Append(queue, Item("error", "str(e)"))
    /\ produced' = "exception"
    /\ UNCHANGED <<gen_pc, forced, collected_thoughts, sse, agent_logs, polls,
                   otherVarsStream>>

\* queue.get() returns an item and the generator handles it
GetItem ==
    /\ gen_pc = "waiting"
    /\ queue # << >>
    /\ queue' = Tail(queue)
    /\ LET item == Head(queue)
       IN CASE item.msg_type = "result" ->
                 /\ sse' = sse \o OnResult(item.msg_data)
                 /\ collected_thoughts' =
                        IF item.msg_data.tool_calls
                        THEN Append(collected_thoughts, "tool_call")
                        ELSE collected_thoughts
                 /\ gen_pc' = "stopped"
            [] item.msg_type = "error" ->
                 /\ sse' = Append(sse, Yield("error"))
                 /\ gen_pc' = "stopped"
                 /\ UNCHANGED collected_thoughts
            [] OTHER ->
                 /\ sse' = Append(sse, Yield(item.msg_type))
                 /\ collected_thoughts' = Append(collected_thoughts, item.msg_type)
                 /\ UNCHANGED gen_pc
    /\ UNCHANGED <<agent_task, forced, produced, agent_logs, polls, otherVarsStream>>

\* wait_for(queue.get(), 0.1) times out: the generator stops when the task
\* is done (run_agent catches every Exception, so task.exception() is None)
WaitTimesOut ==
    /\ gen_pc = "waiting"
    /\ queue = << >>
    /\ polls < MaxPolls
    /\ polls' = polls + 1
    /\ gen_pc' = IF agent_task = "done" THEN "stopped" ELSE "waiting"
    /\ UNCHANGED <<queue, agent_task, forced, collected_thoughts, sse, produced,
                   agent_logs, otherVarsStream>>

StreamNext ==
    \/ \E f \in BOOLEAN : StreamOpens(f)
    \/ AgentStarts
    \/ \E msg_type \in {"thought", "debug"} : AgentLogs(msg_type)
    \/ AgentCallRaises
    \/ \E r \in StreamResults : AgentReturns(r)
    \/ AgentRaises
    \/ GetItem
    \/ WaitTimesOut

StreamSpec == Init /\ [][StreamNext]_vars

\* the loop runs the generator: an item on the queue is taken
StreamLiveSpec == StreamSpec /\ WF_vars(GetItem)

\* the terminal events of the stream
Terminal(e) == e.kind = "yield" /\ e.name \in {"done", "error"}
TerminalAt == {i \in DOMAIN sse : Terminal(sse[i])}
StoredAt(role) == {i \in DOMAIN sse : sse[i] = AddMessage(role)}

\* one terminal event, the last thing of the stream
OneTerminalLast == TerminalAt = {Len(sse)} /\ Len(sse) > 0

\* the query and the output are stored once each, in this order, before done
StoredOnceBeforeDone ==
    /\ Cardinality(StoredAt("user")) = 1
    /\ Cardinality(StoredAt("assistant")) = 1
    /\ \A u \in StoredAt("user"), a \in StoredAt("assistant") :
          u < a /\ sse[Len(sse)] = Yield("done")

\* C40: every agent-mode stream terminates: once the agent task has finished
\* the generator eventually stops, it emits exactly one terminal event (done
\* or error) and nothing after it, and when the turn produced a result the
\* query and the output are stored exactly once, before the done event.
C40_StreamTerminatesStored ==
    /\ (agent_task = "done") ~> (gen_pc = "stopped")
    /\ [](gen_pc = "stopped" => OneTerminalLast)
    /\ [](gen_pc = "stopped" /\ produced = "result" => StoredOnceBeforeDone)

\* what holds: the stream terminates with one terminal event, the last; a
\* stream that ends with done has stored the turn once before it, and a
\* stream that ends with error has stored nothing
C40_StreamTerminates ==
    /\ (agent_task = "done") ~> (gen_pc = "stopped")
    /\ [](gen_pc = "stopped" => OneTerminalLast)
    /\ [](gen_pc = "stopped" =>
            IF sse[Len(sse)] = Yield("done")
            THEN StoredOnceBeforeDone
            ELSE StoredAt("user") = {} /\ StoredAt("assistant") = {})

\* the agent has returned a result and the stream has ended with an error
C40_Witness ==
    /\ gen_pc = "stopped" /\ agent_task = "done" /\ produced = "result"
    /\ sse[Len(sse)] = Yield("error")
    /\ \E i \in DOMAIN queue : queue[i].msg_type = "result"

====
